---------------------------- MODULE Spec2Model ----------------------------
(***************************************************************************)
(* A model of the geometry-ingestion code of basic_webgl                   *)
(* (docs/pdb-loader.js, which also holds the geometry factories and the    *)
(* OBJ loader) and of the scene that uses it (docs/webgl-scene.js: camera, *)
(* view mode, protein loading).                                            *)
(*                                                                         *)
(* The library functions are pure (apart from centerMolecule, which        *)
(* shifts its argument in place), so each is an operator and a call is     *)
(* two steps of a small machine:                                           *)
(*    pc = "idle"  --Call f(arg)-->  pc = f, mem/ret set  --Return--> idle *)
(* parseOBJ is a loop over the records of the text and is modelled record  *)
(* by record, because claims speak of its state between records.           *)
(*                                                                         *)
(* Numbers.  JavaScript numbers are modelled as exact rationals plus NaN   *)
(* ([nan, n, d] with n/d in lowest terms, d > 0): rounding of IEEE doubles *)
(* is not modelled.  Math.sqrt is kept symbolic ([sqrtOf |-> q]) and       *)
(* compared through its square; sines, cosines and what is computed from   *)
(* them are terms [op, l, r].                                              *)
(* generateProteinGeometry is two loops that append to arrays and is       *)
(* modelled pass by pass.                                                  *)
(* Strings are sequences of one-character strings, so that column          *)
(* extraction, trimming and number parsing are computed as the code        *)
(* computes them.                                                          *)
(***************************************************************************)
EXTENDS Integers, Sequences, FiniteSets, TLC

VARIABLES
    pc,     \* "idle", or the name of the function whose call has just run
    arg,    \* the arguments of that call, as passed (before the call)
    mem,    \* the caller-owned argument objects as the call left them
    ret,    \* the value returned
    obj,    \* the locals of parseOBJ while it reads its text
    \* webgl-scene.js: the camera state
    rotationX, rotationY, isDragging, lastMouseX, lastMouseY,
    \* the view mode and the camera distance that goes with it
    viewMode, currentCameraDistance,
    \* the protein state: the globals proteinData, proteinGeometry,
    \* backboneGeometry (assigned but never declared) and proteinLoaded
    protein,
    selector,   \* the value of the #protein-selector element
    pending,    \* the pdb ids whose fetch is in flight, oldest first
    history     \* the last event handled and what its render call did, the
                \* latest request and whether a load has failed

libVars == <<pc, arg, mem, ret, obj>>
cameraVars == <<rotationX, rotationY, isDragging, lastMouseX, lastMouseY>>
sceneVars ==
    <<cameraVars, viewMode, currentCameraDistance, protein, selector, pending, history>>
vars == <<libVars, sceneVars>>

None == [none |-> TRUE]

-----------------------------------------------------------------------------
(* Numbers *)

Abs(i) == IF i < 0 THEN -i ELSE i

RECURSIVE GCD(_, _)
GCD(a, b) == IF b = 0 THEN a ELSE GCD(b, a % b)

\* n/d in lowest terms (d > 0)
Rat(n, d) ==
    LET g == GCD(Abs(n), d)
    IN  [nan |-> FALSE, n |-> n \div g, d |-> d \div g]

Num(i) == [nan |-> FALSE, n |-> i, d |-> 1]
NaN == [nan |-> TRUE, n |-> 0, d |-> 1]

NumAdd(a, b) == IF a.nan \/ b.nan THEN NaN ELSE Rat(a.n * b.d + b.n * a.d, a.d * b.d)
NumSub(a, b) == IF a.nan \/ b.nan THEN NaN ELSE Rat(a.n * b.d - b.n * a.d, a.d * b.d)
NumMul(a, b) == IF a.nan \/ b.nan THEN NaN ELSE Rat(a.n * b.n, a.d * b.d)
\* a / k for an integer k > 0 (an array length)
NumDivInt(a, k) == IF a.nan THEN NaN ELSE Rat(a.n, a.d * k)
\* a < b, a <= b, a === b: every comparison with NaN is false
NumLt(a, b) == ~a.nan /\ ~b.nan /\ a.n * b.d < b.n * a.d
NumLe(a, b) == ~a.nan /\ ~b.nan /\ a.n * b.d <= b.n * a.d
NumEq(a, b) == ~a.nan /\ ~b.nan /\ a.n * b.d = b.n * a.d

\* Math.sqrt(q), symbolic
Sqrt(q) == [sqrtOf |-> q]
\* Math.sqrt(q) < t  (q >= 0 or NaN)
SqrtLt(s, t) == NumLt(Num(0), t) /\ NumLt(s.sqrtOf, NumMul(t, t))

-----------------------------------------------------------------------------
(* Strings: sequences of characters *)

Digits == <<"0", "1", "2", "3", "4", "5", "6", "7", "8", "9">>
IsDigit(c) == \E i \in 1..10 : Digits[i] = c
DigitVal(c) == (CHOOSE i \in 1..10 : Digits[i] = c) - 1

\* the characters String.prototype.trim removes (those the inputs can hold)
WhiteSpace == {" ", "\t", "\r", "\n"}

Min(a, b) == IF a < b THEN a ELSE b
Max(a, b) == IF a > b THEN a ELSE b

\* s.substring(a, b), 0-based, end exclusive, both clamped to the length
Substring(s, a, b) ==
    LET lo == Min(Max(Min(a, b), 0), Len(s))
        hi == Min(Max(Max(a, b), 0), Len(s))
    IN  SubSeq(s, lo + 1, hi)

RECURSIVE TrimStart(_)
TrimStart(s) ==
    IF s # <<>> /\ Head(s) \in WhiteSpace THEN TrimStart(Tail(s)) ELSE s

RECURSIVE TrimEnd(_)
TrimEnd(s) ==
    IF s # <<>> /\ s[Len(s)] \in WhiteSpace THEN TrimEnd(SubSeq(s, 1, Len(s) - 1)) ELSE s

Trim(s) == TrimEnd(TrimStart(s))

StartsWith(s, p) == Len(s) >= Len(p) /\ SubSeq(s, 1, Len(p)) = p

\* the longest prefix of s made of digits
RECURSIVE DigitPrefix(_)
DigitPrefix(s) ==
    IF s # <<>> /\ IsDigit(Head(s)) THEN <<Head(s)>> \o DigitPrefix(Tail(s)) ELSE <<>>

RECURSIVE DigitsValue(_)
DigitsValue(ds) ==
    IF ds = <<>> THEN 0 ELSE 10 * DigitsValue(SubSeq(ds, 1, Len(ds) - 1)) + DigitVal(ds[Len(ds)])

RECURSIVE Pow10(_)
Pow10(k) == IF k = 0 THEN 1 ELSE 10 * Pow10(k - 1)

\* text.split(sep) for a one-character separator
RECURSIVE Split(_, _)
Split(s, sep) ==
    IF \A i \in 1..Len(s) : s[i] # sep
    THEN <<s>>
    ELSE LET k == CHOOSE i \in 1..Len(s) : s[i] = sep /\ \A j \in 1..(i - 1) : s[j] # sep
         IN  <<SubSeq(s, 1, k - 1)>> \o Split(SubSeq(s, k + 1, Len(s)), sep)

\* parseInt(s): leading white space, an optional sign, then the longest run
\* of decimal digits; NaN when there is no digit.  (A "0x" prefix, which
\* selects radix 16, is not modelled.)
ParseInt(str) ==
    LET s    == TrimStart(str)
        neg  == s # <<>> /\ Head(s) = "-"
        body == IF s # <<>> /\ Head(s) \in {"-", "+"} THEN Tail(s) ELSE s
        ds   == DigitPrefix(body)
    IN  IF ds = <<>> THEN NaN
        ELSE Num(IF neg THEN -DigitsValue(ds) ELSE DigitsValue(ds))

\* parseFloat(s): leading white space, an optional sign, digits, an optional
\* "." and digits; NaN when no digit is read.  (Exponents and "Infinity"
\* are not modelled.)
ParseFloat(str) ==
    LET s    == TrimStart(str)
        neg  == s # <<>> /\ Head(s) = "-"
        body == IF s # <<>> /\ Head(s) \in {"-", "+"} THEN Tail(s) ELSE s
        ip   == DigitPrefix(body)
        rest == SubSeq(body, Len(ip) + 1, Len(body))
        fp   == IF rest # <<>> /\ Head(rest) = "." THEN DigitPrefix(Tail(rest)) ELSE <<>>
        mag  == Rat(DigitsValue(ip) * Pow10(Len(fp)) + DigitsValue(fp), Pow10(Len(fp)))
    IN  IF ip = <<>> /\ fp = <<>> THEN NaN
        ELSE IF neg THEN NumSub(Num(0), mag) ELSE mag

-----------------------------------------------------------------------------
(* Calls *)

\* what a call hands back: a returned value, or an exception
Returned(v) == [threw |-> FALSE, value |-> v]
Thrown == [threw |-> TRUE, value |-> None]

\* an omitted argument
Undefined == [undefined |-> TRUE]

-----------------------------------------------------------------------------
(* pdb-loader.js: atoms, bonds, centring *)

\* the atom record parsePDB builds
Atom(serial, name, resName, chainId, resSeq, x, y, z, element) ==
    [serial |-> serial, name |-> name, resName |-> resName, chainId |-> chainId,
     resSeq |-> resSeq, x |-> x, y |-> y, z |-> z, element |-> element]

\* a guess that returns the first character whatever it is
guessElementFirstChar(atomName) ==
    LET t == Trim(atomName)
    IN  IF t = <<>> THEN <<>> ELSE <<Head(t)>>

\* function guessElement(atomName)
guessElement(atomName) ==
    LET t == Trim(atomName)
        firstChar == IF t = <<>> THEN <<>> ELSE <<Head(t)>>
    IN  IF firstChar \in {<<"C">>, <<"N">>, <<"O">>, <<"S">>, <<"H">>, <<"P">>}
        THEN firstChar
        ELSE <<"C">>

\* maxBondDistance = 1.8
DefaultMaxBondDistance == Rat(18, 10)

\* dx*dx + dy*dy + dz*dz of calculateBonds
DistanceSquared(atom1, atom2) ==
    LET dx == NumSub(atom1.x, atom2.x)
        dy == NumSub(atom1.y, atom2.y)
        dz == NumSub(atom1.z, atom2.z)
    IN  NumAdd(NumAdd(NumMul(dx, dx), NumMul(dy, dy)), NumMul(dz, dz))

\* hydrogen test and distance test accepting <= (a slip of the comparison)
BondTestInclusive(atom1, atom2, maxBondDistance) ==
    /\ ~(atom1.element = <<"H">> \/ atom2.element = <<"H">>)
    /\ \/ SqrtLt(Sqrt(DistanceSquared(atom1, atom2)), maxBondDistance)
       \/ NumEq(DistanceSquared(atom1, atom2), NumMul(maxBondDistance, maxBondDistance))

\* the body of calculateBonds' inner loop: does the pair get a bond?
BondTest(atom1, atom2, maxBondDistance) ==
    /\ ~(atom1.element = <<"H">> \/ atom2.element = <<"H">>)
    /\ SqrtLt(Sqrt(DistanceSquared(atom1, atom2)), maxBondDistance)

\* the two loops of calculateBonds from (i, j) on; indices are 0-based
RECURSIVE BondsFrom(_, _, _, _)
BondsFrom(atoms, i, j, maxBondDistance) ==
    IF i >= Len(atoms) THEN <<>>
    ELSE IF j >= Len(atoms) THEN BondsFrom(atoms, i + 1, i + 2, maxBondDistance)
    ELSE (IF BondTest(atoms[i + 1], atoms[j + 1], maxBondDistance)
          THEN <<[atom1 |-> i, atom2 |-> j,
                  distance |-> Sqrt(DistanceSquared(atoms[i + 1], atoms[j + 1]))]>>
          ELSE <<>>)
         \o BondsFrom(atoms, i, j + 1, maxBondDistance)

\* function calculateBonds(atoms, maxBondDistance = 1.8)
calculateBonds(atoms, maxBondDistance) ==
    BondsFrom(atoms, 0, 1,
              IF maxBondDistance = Undefined THEN DefaultMaxBondDistance
              ELSE maxBondDistance)

RECURSIVE SumOf(_, _)
SumOf(atoms, axis) ==
    IF atoms = <<>> THEN Num(0)
    ELSE NumAdd(SumOf(SubSeq(atoms, 1, Len(atoms) - 1), axis), atoms[Len(atoms)][axis])

\* centring that divides by one atom too many
centerMoleculeOffByOne(atoms) ==
    IF Len(atoms) = 0 THEN atoms
    ELSE LET centerX == NumDivInt(SumOf(atoms, "x"), Len(atoms) + 1)
             centerY == NumDivInt(SumOf(atoms, "y"), Len(atoms) + 1)
             centerZ == NumDivInt(SumOf(atoms, "z"), Len(atoms) + 1)
         IN  [i \in 1..Len(atoms) |->
                [atoms[i] EXCEPT !.x = NumSub(@, centerX),
                                 !.y = NumSub(@, centerY),
                                 !.z = NumSub(@, centerZ)]]

\* function centerMolecule(atoms): the array as the call leaves it
centerMolecule(atoms) ==
    IF Len(atoms) = 0 THEN atoms
    ELSE LET centerX == NumDivInt(SumOf(atoms, "x"), Len(atoms))
             centerY == NumDivInt(SumOf(atoms, "y"), Len(atoms))
             centerZ == NumDivInt(SumOf(atoms, "z"), Len(atoms))
         IN  [i \in 1..Len(atoms) |->
                [atoms[i] EXCEPT !.x = NumSub(@, centerX),
                                 !.y = NumSub(@, centerY),
                                 !.z = NumSub(@, centerZ)]]

-----------------------------------------------------------------------------
(* pdb-loader.js: parsePDB *)

\* a record test that looks at four characters only
IsAtomLineLoose(line) ==
    \/ StartsWith(line, <<"A", "T", "O", "M">>)
    \/ StartsWith(line, <<"H", "E", "T", "A", "T", "M">>)

\* line.startsWith('ATOM  ') || line.startsWith('HETATM')
IsAtomLine(line) ==
    \/ StartsWith(line, <<"A", "T", "O", "M", " ", " ">>)
    \/ StartsWith(line, <<"H", "E", "T", "A", "T", "M">>)

\* the object literal of parsePDB's loop body
ParseAtomLine(line) ==
    LET elementCol == Trim(Substring(line, 76, 78))
    IN  Atom(ParseInt(Trim(Substring(line, 6, 11))),
             Trim(Substring(line, 12, 16)),
             Trim(Substring(line, 17, 20)),
             Trim(Substring(line, 21, 22)),
             ParseInt(Trim(Substring(line, 22, 26))),
             ParseFloat(Trim(Substring(line, 30, 38))),
             ParseFloat(Trim(Substring(line, 38, 46))),
             ParseFloat(Trim(Substring(line, 46, 54))),
             IF elementCol # <<>> THEN elementCol
             ELSE guessElement(Trim(Substring(line, 12, 16))))

\* the for loop of parsePDB: one atom per matching line, in file order
RECURSIVE ParseLines(_)
ParseLines(lines) ==
    IF lines = <<>> THEN <<>>
    ELSE (IF IsAtomLine(Head(lines)) THEN <<ParseAtomLine(Head(lines))>> ELSE <<>>)
         \o ParseLines(Tail(lines))

\* a parse that fails on a text without any record
parsePDBFailsOnEmpty(text) ==
    LET atoms    == ParseLines(Split(text, "\n"))
        centered == centerMolecule(atoms)
        bonds    == calculateBonds(centered, Undefined)
    IN  IF atoms = <<>> THEN Thrown ELSE Returned([atoms |-> centered, bonds |-> bonds])

\* function parsePDB(text)
parsePDB(text) ==
    LET atoms    == ParseLines(Split(text, "\n"))
        centered == centerMolecule(atoms)
        bonds    == calculateBonds(centered, Undefined)
    IN  Returned([atoms |-> centered, bonds |-> bonds])

-----------------------------------------------------------------------------
(* pdb-loader.js: extractBackboneTrace *)

NumAbs(a) == IF a.nan THEN NaN ELSE Rat(Abs(a.n), a.d)

\* a plain object used as a map, kept as its entries [key, value] in
\* insertion order
ObjHas(o, key) == \E i \in 1..Len(o) : o[i].key = key
ObjGet(o, key) == o[CHOOSE i \in 1..Len(o) : o[i].key = key].value
ObjSet(o, key, value) ==
    IF ObjHas(o, key)
    THEN [i \in 1..Len(o) |-> IF o[i].key = key THEN [o[i] EXCEPT !.value = value] ELSE o[i]]
    ELSE Append(o, [key |-> key, value |-> value])

\* is the key an array index ("0", "7", "12", ..., no leading zero)?
IsIndexKey(key) ==
    /\ key # <<>>
    /\ \A i \in 1..Len(key) : IsDigit(key[i])
    /\ (Len(key) > 1 => key[1] # "0")

\* the entries with index keys, in ascending numeric order
RECURSIVE SortIndexEntries(_)
SortIndexEntries(es) ==
    IF es = <<>> THEN <<>>
    ELSE LET m == CHOOSE i \in 1..Len(es) :
                     \A j \in 1..Len(es) : DigitsValue(es[i].key) <= DigitsValue(es[j].key)
         IN  <<es[m]>> \o SortIndexEntries(SubSeq(es, 1, m - 1) \o SubSeq(es, m + 1, Len(es)))

\* the order in which for...in and Object.keys visit an object's own
\* properties: index keys ascending, then the other keys as inserted
OwnEntries(o) ==
    SortIndexEntries(SelectSeq(o, LAMBDA e : IsIndexKey(e.key)))
        \o SelectSeq(o, LAMBDA e : ~IsIndexKey(e.key))

ObjectKeys(o) == [i \in 1..Len(o) |-> OwnEntries(o)[i].key]

\* the first loop of extractBackboneTrace: CA atoms grouped by chain
RECURSIVE GroupChains(_, _)
GroupChains(atoms, chains) ==
    IF atoms = <<>> THEN chains
    ELSE LET atom    == Head(atoms)
             chainId == IF atom.chainId # <<>> THEN atom.chainId ELSE <<"A">>
             entry   == [resSeq |-> atom.resSeq, x |-> atom.x, y |-> atom.y, z |-> atom.z,
                         resName |-> atom.resName]
             started == IF ObjHas(chains, chainId) THEN chains ELSE ObjSet(chains, chainId, <<>>)
         IN  IF atom.name = <<"C", "A">>
             THEN GroupChains(Tail(atoms),
                              ObjSet(started, chainId, Append(ObjGet(started, chainId), entry)))
             ELSE GroupChains(Tail(atoms), chains)

\* chain.sort((a, b) => a.resSeq - b.resSeq): a stable sort, here by
\* insertion after the last element that is not greater
RECURSIVE SortByResSeq(_)
SortByResSeq(chain) ==
    IF chain = <<>> THEN <<>>
    ELSE LET front == SortByResSeq(SubSeq(chain, 1, Len(chain) - 1))
             x     == chain[Len(chain)]
             keep  == {i \in 1..Len(front) :
                          \A j \in 1..i : ~NumLt(NumSub(x.resSeq, front[j].resSeq), Num(0))}
             k     == Cardinality(keep)
         IN  SubSeq(front, 1, k) \o <<x>> \o SubSeq(front, k + 1, Len(front))

\* a gap test that lets a break of three residues through
IsSequentialLoose(current, next) ==
    NumLe(NumAbs(NumSub(next.resSeq, current.resSeq)), Num(3))

\* Math.abs(next.resSeq - current.resSeq) <= 2
IsSequential(current, next) ==
    NumLe(NumAbs(NumSub(next.resSeq, current.resSeq)), Num(2))

\* the segments of one sorted chain
ChainSegments(chainId, chain) ==
    LET linked == SelectSeq([i \in 1..Len(chain) |-> i],
                            LAMBDA i : i < Len(chain) /\ IsSequential(chain[i], chain[i + 1]))
    IN  [k \in 1..Len(linked) |->
            [start   |-> [x |-> chain[linked[k]].x, y |-> chain[linked[k]].y,
                          z |-> chain[linked[k]].z],
             end     |-> [x |-> chain[linked[k] + 1].x, y |-> chain[linked[k] + 1].y,
                          z |-> chain[linked[k] + 1].z],
             chainId |-> chainId]]

RECURSIVE Flatten(_)
Flatten(ss) == IF ss = <<>> THEN <<>> ELSE Head(ss) \o Flatten(Tail(ss))

\* function extractBackboneTrace(proteinData)
extractBackboneTrace(proteinData) ==
    LET chains == GroupChains(proteinData.atoms, <<>>)
        sorted == [i \in 1..Len(chains) |->
                      [key |-> chains[i].key, value |-> SortByResSeq(chains[i].value)]]
        order  == OwnEntries(sorted)
    IN  Returned([atoms    |-> Flatten([i \in 1..Len(order) |-> order[i].value]),
                  segments |-> Flatten([i \in 1..Len(order) |->
                                           ChainSegments(order[i].key, order[i].value)]),
                  chains   |-> ObjectKeys(sorted)])

-----------------------------------------------------------------------------
(* pdb-loader.js: parseOBJ and calculateNormals *)

\* arr[k] of a JavaScript array: undefined unless k is an index in range
ArrGet(arr, k) ==
    IF ~k.nan /\ k.d = 1 /\ k.n >= 0 /\ k.n < Len(arr) THEN arr[k.n + 1] ELSE Undefined

\* ToNumber of an array element: undefined becomes NaN
ToNumber(x) == IF x = Undefined THEN NaN ELSE x

\* new Float32Array(xs): every element through ToNumber (rounding to single
\* precision is not modelled)
Float32Array(xs) == [i \in 1..Len(xs) |-> ToNumber(xs[i])]

\* new Uint16Array(xs): every element modulo 2^16
Uint16Array(xs) == [i \in 1..Len(xs) |-> xs[i] % 65536]

\* line.split(/\s+/) of a trimmed, non-empty line
RECURSIVE SplitWS(_)
SplitWS(s) ==
    IF \A i \in 1..Len(s) : s[i] \notin WhiteSpace
    THEN <<s>>
    ELSE LET k == CHOOSE i \in 1..Len(s) :
                     s[i] \in WhiteSpace /\ \A j \in 1..(i - 1) : s[j] \notin WhiteSpace
         IN  <<SubSeq(s, 1, k - 1)>> \o SplitWS(TrimStart(SubSeq(s, k, Len(s))))

\* parseFloat(parts[k]): parts[k] is undefined past the end, and
\* parseFloat(undefined) is NaN
ParseFloatPart(parts, k) == IF k <= Len(parts) THEN ParseFloat(parts[k]) ELSE NaN

\* vertexData[k] ? parseInt(vertexData[k]) - 1 : -1   (k is 0-based)
OptionalIndex(vertexData, k) ==
    IF k + 1 <= Len(vertexData) /\ vertexData[k + 1] # <<>>
    THEN NumSub(ParseInt(vertexData[k + 1]), Num(1))
    ELSE Num(-1)

\* a key that leaves the texture index out
MakeKeyNoTex(posIndex, texIndex, normIndex) == <<posIndex, Num(-1), normIndex>>

\* `${posIndex}/${texIndex}/${normIndex}`: the three numbers, which the
\* string determines and is determined by
MakeKey(posIndex, texIndex, normIndex) == <<posIndex, texIndex, normIndex>>

\* the locals of parseOBJ before the first line; seen and last are history:
\* the (key, index) of every face vertex read so far, and the last face
InitialObj ==
    [positions |-> <<>>, normals |-> <<>>, texCoords |-> <<>>,
     vertices |-> <<>>, vertexNormals |-> <<>>, indices |-> <<>>,
     vertexMap |-> <<>>, currentIndex |-> 0,
     seen |-> <<>>, last |-> None, faces |-> 0]

\* one pass of the loop over a face's vertex tokens
FaceVertex(o, token) ==
    LET vertexData == Split(token, "/")
        posIndex   == NumSub(ParseInt(vertexData[1]), Num(1))
        texIndex   == OptionalIndex(vertexData, 1)
        normIndex  == OptionalIndex(vertexData, 2)
        key        == MakeKey(posIndex, texIndex, normIndex)
        known      == ObjHas(o.vertexMap, key)
        index      == IF known THEN ObjGet(o.vertexMap, key) ELSE o.currentIndex
        p3         == NumMul(posIndex, Num(3))
        n3         == NumMul(normIndex, Num(3))
        seen       == Append(o.seen, [key |-> <<posIndex, texIndex, normIndex>>,
                                      index |-> index])
    IN  IF known
        THEN [o EXCEPT !.seen = seen]
        ELSE [o EXCEPT
                !.seen = seen,
                !.currentIndex = @ + 1,
                !.vertexMap = ObjSet(@, key, index),
                !.vertices = @ \o <<ArrGet(o.positions, p3),
                                    ArrGet(o.positions, NumAdd(p3, Num(1))),
                                    ArrGet(o.positions, NumAdd(p3, Num(2)))>>,
                !.vertexNormals =
                    IF NumLe(Num(0), normIndex) /\ Len(o.normals) > 0
                    THEN @ \o <<ArrGet(o.normals, n3),
                                ArrGet(o.normals, NumAdd(n3, Num(1))),
                                ArrGet(o.normals, NumAdd(n3, Num(2)))>>
                    ELSE @ \o <<Num(0), Num(0), Num(1)>>]

\* the loop over parts[1..]: the locals after it
RECURSIVE FaceVertices(_, _)
FaceVertices(o, tokens) ==
    IF tokens = <<>> THEN o
    ELSE FaceVertices(FaceVertex(o, Head(tokens)), Tail(tokens))

\* a strip instead of a fan from the first vertex
TriangulateStrip(faceVertices) ==
    IF Len(faceVertices) < 3 THEN <<>>
    ELSE Flatten([i \in 1..(Len(faceVertices) - 2) |->
                     <<faceVertices[i], faceVertices[i + 1], faceVertices[i + 2]>>])

\* the triangulation at the end of case 'f'
Triangulate(faceVertices) ==
    IF Len(faceVertices) = 3
    THEN <<faceVertices[1], faceVertices[2], faceVertices[3]>>
    ELSE IF Len(faceVertices) = 4
    THEN <<faceVertices[1], faceVertices[2], faceVertices[3],
           faceVertices[1], faceVertices[3], faceVertices[4]>>
    ELSE IF Len(faceVertices) > 4
    THEN Flatten([i \in 1..(Len(faceVertices) - 2) |->
                     <<faceVertices[1], faceVertices[i + 1], faceVertices[i + 2]>>])
    ELSE <<>>

\* case 'f'
ProcessFace(o, parts) ==
    LET after == FaceVertices(o, Tail(parts))
        faceVertices ==
            [i \in 1..(Len(parts) - 1) |-> after.seen[Len(o.seen) + i].index]
    IN  [after EXCEPT
            !.indices = @ \o Triangulate(faceVertices),
            !.last = [faceVertices |-> faceVertices, indicesBefore |-> Len(o.indices)],
            !.faces = @ + 1]

\* the body of the loop over the lines
ProcessLine(o, rawLine) ==
    LET line == Trim(rawLine)
    IN  IF line = <<>> \/ StartsWith(line, <<"#">>) THEN o
        ELSE LET parts == SplitWS(line)
                 type  == parts[1]
             IN  CASE type = <<"v">> ->
                        [o EXCEPT !.positions = @ \o <<ParseFloatPart(parts, 2),
                                                       ParseFloatPart(parts, 3),
                                                       ParseFloatPart(parts, 4)>>]
                   [] type = <<"v", "n">> ->
                        [o EXCEPT !.normals = @ \o <<ParseFloatPart(parts, 2),
                                                     ParseFloatPart(parts, 3),
                                                     ParseFloatPart(parts, 4)>>]
                   [] type = <<"v", "t">> ->
                        [o EXCEPT !.texCoords = @ \o <<ParseFloatPart(parts, 2),
                                                       ParseFloatPart(parts, 3)>>]
                   [] type = <<"f">> -> ProcessFace(o, parts)
                   [] OTHER -> o

\* is the non-negative rational q the square of a rational?
IsSquare(q) ==
    /\ \E r \in 0..q.n : r * r = q.n
    /\ \E r \in 1..q.d : r * r = q.d

RootOf(q) ==
    Rat(CHOOSE r \in 0..q.n : r * r = q.n, CHOOSE r \in 1..q.d : r * r = q.d)

\* x / Math.sqrt(q): exact when q is a square, symbolic otherwise
DivSqrt(x, q) ==
    IF x.nan \/ q.nan THEN NaN
    ELSE IF IsSquare(q) THEN Rat(x.n * RootOf(q).d, x.d * RootOf(q).n)
    ELSE [nan |-> FALSE, num |-> x, sqrtDen |-> q]

Vec3At(arr, base) ==
    <<ToNumber(ArrGet(arr, Num(base))), ToNumber(ArrGet(arr, Num(base + 1))),
      ToNumber(ArrGet(arr, Num(base + 2)))>>

VecSub(a, b) == <<NumSub(a[1], b[1]), NumSub(a[2], b[2]), NumSub(a[3], b[3])>>

Cross(e1, e2) ==
    <<NumSub(NumMul(e1[2], e2[3]), NumMul(e1[3], e2[2])),
      NumSub(NumMul(e1[3], e2[1]), NumMul(e1[1], e2[3])),
      NumSub(NumMul(e1[1], e2[2]), NumMul(e1[2], e2[1]))>>

\* (v1 - v0) x (v2 - v0) of the triangle whose indices start at indices[i]
FaceNormal(vertices, indices, i) ==
    LET v0 == Vec3At(vertices, indices[i + 1] * 3)
        v1 == Vec3At(vertices, indices[i + 2] * 3)
        v2 == Vec3At(vertices, indices[i + 3] * 3)
    IN  Cross(VecSub(v1, v0), VecSub(v2, v0))

\* the second loop of calculateNormals from triangle offset i on: the face
\* normal is added at each of the triangle's three corners
RECURSIVE Accumulate(_, _, _, _)
Accumulate(vertices, indices, out, i) ==
    IF i + 3 > Len(indices) THEN out
    ELSE LET normal == FaceNormal(vertices, indices, i)
             step(o, j) ==
                 [k \in 1..Len(o) |->
                     IF (k - 1) \div 3 = indices[i + j + 1]
                     THEN NumAdd(o[k], normal[((k - 1) % 3) + 1])
                     ELSE o[k]]
         IN  Accumulate(vertices, indices, step(step(step(out, 0), 1), 2), i + 3)

\* the third loop of calculateNormals
NormalizeAll(out) ==
    [k \in 1..Len(out) |->
        LET base == ((k - 1) \div 3) * 3
            x == out[base + 1]
            y == IF base + 2 <= Len(out) THEN out[base + 2] ELSE NaN
            z == IF base + 3 <= Len(out) THEN out[base + 3] ELSE NaN
            len2 == NumAdd(NumAdd(NumMul(x, x), NumMul(y, y)), NumMul(z, z))
        IN  IF NumLt(Num(0), len2) THEN DivSqrt(out[k], len2) ELSE out[k]]

\* function calculateNormals(vertices, indices, outNormals): outNormals as
\* the call leaves it
calculateNormals(vertices, indices, outNormals) ==
    NormalizeAll(Accumulate(Float32Array(vertices), indices,
                            outNormals \o [i \in 1..Len(vertices) |-> Num(0)], 0))

\* the end of parseOBJ: the normals fallback and the returned buffers
FinishOBJ(o) ==
    LET vertexNormals ==
            IF Len(o.vertexNormals) = 0
            THEN calculateNormals(o.vertices, o.indices, o.vertexNormals)
            ELSE o.vertexNormals
    IN  Returned([vertices |-> Float32Array(o.vertices),
                  normals  |-> Float32Array(vertexNormals),
                  indices  |-> Uint16Array(o.indices)])

-----------------------------------------------------------------------------
(* pdb-loader.js: the sphere and cylinder factories, generateProteinGeometry *)

\* Values that are not rational (a sine, a square root, and what is computed
\* from them) are kept as terms [op, l, r]; rational operands are computed.
IsRational(x) == "n" \in DOMAIN x

IsZero(x) == IsRational(x) /\ ~x.nan /\ x.n = 0
IsNaN(x) == IsRational(x) /\ x.nan

Term(op, l, r) == [op |-> op, l |-> l, r |-> r]

TAdd(a, b) ==
    IF IsRational(a) /\ IsRational(b) THEN NumAdd(a, b)
    ELSE IF IsNaN(a) \/ IsNaN(b) THEN NaN
    ELSE IF IsZero(a) THEN b
    ELSE IF IsZero(b) THEN a
    ELSE Term("+", a, b)

TSub(a, b) ==
    IF IsRational(a) /\ IsRational(b) THEN NumSub(a, b)
    ELSE IF IsNaN(a) \/ IsNaN(b) THEN NaN
    ELSE IF IsZero(b) THEN a
    ELSE Term("-", a, b)

TMul(a, b) ==
    IF IsRational(a) /\ IsRational(b) THEN NumMul(a, b)
    ELSE IF IsNaN(a) \/ IsNaN(b) THEN NaN
    ELSE IF IsZero(a) \/ IsZero(b) THEN Num(0)
    ELSE IF a = Num(1) THEN b
    ELSE IF b = Num(1) THEN a
    ELSE Term("*", a, b)

\* Math.sqrt(q) of a rational q >= 0: its root when q is a square
TSqrt(q) == IF q.nan THEN NaN ELSE IF IsSquare(q) THEN RootOf(q) ELSE Sqrt(q)

\* k * mult * Math.PI / n as a multiple of pi; 0/0 is NaN
PiFraction(k, mult, n) == IF n = 0 THEN NaN ELSE Rat(k * mult, n)

\* Math.sin and Math.cos of q*pi: the value at the multiples of pi/2 (the
\* rounding of Math.PI is not modelled), a term elsewhere
SinPi(q) ==
    IF q.nan THEN NaN
    ELSE IF q.d = 1 THEN Num(0)
    ELSE IF q.d = 2 THEN (IF q.n % 4 = 1 THEN Num(1) ELSE Num(-1))
    ELSE Term("sin", q, None)

CosPi(q) ==
    IF q.nan THEN NaN
    ELSE IF q.d = 1 THEN (IF q.n % 2 = 0 THEN Num(1) ELSE Num(-1))
    ELSE IF q.d = 2 THEN Num(0)
    ELSE Term("cos", q, None)

\* function createSphere(radius, latitudeBands, longitudeBands)
createSphere(radius, latitudeBands, longitudeBands) ==
    LET row == longitudeBands + 1
        unit(lat, lon) ==
            LET theta == PiFraction(lat, 1, latitudeBands)
                phi   == PiFraction(lon, 2, longitudeBands)
            IN  <<TMul(CosPi(phi), SinPi(theta)), CosPi(theta), TMul(SinPi(phi), SinPi(theta))>>
        normals ==
            [k \in 1..(3 * (latitudeBands + 1) * row) |->
                unit(((k - 1) \div 3) \div row, ((k - 1) \div 3) % row)[((k - 1) % 3) + 1]]
        cell(lat, lon) ==
            LET first  == lat * row + lon
                second == first + longitudeBands + 1
            IN  <<first, second, first + 1, second, second + 1, first + 1>>
        indices ==
            [k \in 1..(6 * latitudeBands * longitudeBands) |->
                cell(((k - 1) \div 6) \div longitudeBands,
                     ((k - 1) \div 6) % longitudeBands)[((k - 1) % 6) + 1]]
    IN  [vertices |-> Float32Array([k \in 1..Len(normals) |-> TMul(radius, normals[k])]),
         normals  |-> Float32Array(normals),
         indices  |-> Uint16Array(indices)]

\* a cylinder whose rings stop one vertex short (x < radialSegments)
createCylinderOpenRing(radiusTop, radiusBottom, height, radialSegments) ==
    LET ring == radialSegments
        halfHeight == TMul(height, Rat(1, 2))
        radiusAt(y) == TAdd(TMul(Num(y), TSub(radiusTop, radiusBottom)), radiusBottom)
        yPos(y) == TSub(TMul(Num(y), height), halfHeight)
        theta(x) == PiFraction(x, 2, radialSegments)
        vertices ==
            [k \in 1..(3 * 2 * ring) |->
                LET v == (k - 1) \div 3
                    y == v \div ring
                    x == v % ring
                IN  <<TMul(radiusAt(y), CosPi(theta(x))), yPos(y),
                      TMul(radiusAt(y), SinPi(theta(x)))>>[((k - 1) % 3) + 1]]
        normals ==
            [k \in 1..(3 * 2 * ring) |->
                LET x == ((k - 1) \div 3) % ring
                IN  <<CosPi(theta(x)), Num(0), SinPi(theta(x))>>[((k - 1) % 3) + 1]]
        quad(x) ==
            LET a == x
                b == a + radialSegments + 1
            IN  <<a, b, a + 1, b, b + 1, a + 1>>
        indices ==
            [k \in 1..(6 * radialSegments) |-> quad((k - 1) \div 6)[((k - 1) % 6) + 1]]
    IN  [vertices |-> Float32Array(vertices),
         normals  |-> Float32Array(normals),
         indices  |-> Uint16Array(indices)]

\* function createCylinder(radiusTop, radiusBottom, height, radialSegments)
createCylinder(radiusTop, radiusBottom, height, radialSegments) ==
    LET ring == radialSegments + 1
        halfHeight == TMul(height, Rat(1, 2))
        radiusAt(y) == TAdd(TMul(Num(y), TSub(radiusTop, radiusBottom)), radiusBottom)
        yPos(y) == TSub(TMul(Num(y), height), halfHeight)
        theta(x) == PiFraction(x, 2, radialSegments)
        vertices ==
            [k \in 1..(3 * 2 * ring) |->
                LET v == (k - 1) \div 3
                    y == v \div ring
                    x == v % ring
                IN  <<TMul(radiusAt(y), CosPi(theta(x))), yPos(y),
                      TMul(radiusAt(y), SinPi(theta(x)))>>[((k - 1) % 3) + 1]]
        normals ==
            [k \in 1..(3 * 2 * ring) |->
                LET x == ((k - 1) \div 3) % ring
                IN  <<CosPi(theta(x)), Num(0), SinPi(theta(x))>>[((k - 1) % 3) + 1]]
        quad(x) ==
            LET a == x
                b == a + radialSegments + 1
            IN  <<a, b, a + 1, b, b + 1, a + 1>>
        indices ==
            [k \in 1..(6 * radialSegments) |-> quad((k - 1) \div 6)[((k - 1) % 6) + 1]]
    IN  [vertices |-> Float32Array(vertices),
         normals  |-> Float32Array(normals),
         indices  |-> Uint16Array(indices)]

\* a / k for an integer k >= 0: 0/0 is NaN, a/0 is an infinity (kept as
\* n/0; no arithmetic is done on it)
NumDivSegments(a, k) ==
    IF a.nan THEN NaN
    ELSE IF k = 0 THEN (IF a.n = 0 THEN NaN
                        ELSE [nan |-> FALSE, n |-> (IF a.n > 0 THEN 1 ELSE -1), d |-> 0])
    ELSE Rat(a.n, a.d * k)

\* the index list with the back face wound the other way
CubeIndicesBackFlipped ==
    <<0, 1, 2,      0, 2, 3,
      4, 6, 5,      4, 7, 6,
      8, 9, 10,     8, 10, 11,
      12, 13, 14,   12, 14, 15,
      16, 17, 18,   16, 18, 19,
      20, 21, 22,   20, 22, 23>>

\* the index list of createCube: front, back, top, bottom, right, left
CubeIndices ==
    <<0, 1, 2,      0, 2, 3,
      4, 5, 6,      4, 6, 7,
      8, 9, 10,     8, 10, 11,
      12, 13, 14,   12, 14, 15,
      16, 17, 18,   16, 18, 19,
      20, 21, 22,   20, 22, 23>>

\* function createCube(size = 1.0)
createCube(size) ==
    LET s == size
        m == NumSub(Num(0), size)
    IN  [vertices |-> Float32Array(
            <<m, m, s,   s, m, s,   s, s, s,   m, s, s,
              m, m, m,   m, s, m,   s, s, m,   s, m, m,
              m, s, m,   m, s, s,   s, s, s,   s, s, m,
              m, m, m,   s, m, m,   s, m, s,   m, m, s,
              s, m, m,   s, s, m,   s, s, s,   s, m, s,
              m, m, m,   m, m, s,   m, s, s,   m, s, m>>),
         normals |-> Float32Array(
            [k \in 1..72 |->
                <<<<Num(0), Num(0), Num(1)>>, <<Num(0), Num(0), Num(-1)>>,
                  <<Num(0), Num(1), Num(0)>>, <<Num(0), Num(-1), Num(0)>>,
                  <<Num(1), Num(0), Num(0)>>, <<Num(-1), Num(0), Num(0)>>>>
                    [((k - 1) \div 12) + 1][((k - 1) % 3) + 1]]),
         indices |-> Uint16Array(CubeIndices)]

\* function createPlane(width, height, widthSegments, heightSegments)
createPlane(width, height, widthSegments, heightSegments) ==
    LET row == widthSegments + 1
        halfWidth == NumDivInt(width, 2)
        halfHeight == NumDivInt(height, 2)
        y(iy) == NumSub(NumDivSegments(NumMul(Num(iy), height), heightSegments), halfHeight)
        x(ix) == NumSub(NumDivSegments(NumMul(Num(ix), width), widthSegments), halfWidth)
        count == (heightSegments + 1) * row
        quad(iy, ix) ==
            LET a == iy * (widthSegments + 1) + ix
                b == a + 1
                c == a + widthSegments + 1
                d == c + 1
            IN  <<a, c, b, b, c, d>>
    IN  [vertices |-> Float32Array(
            [k \in 1..(3 * count) |->
                <<x(((k - 1) \div 3) % row), y(((k - 1) \div 3) \div row), Num(0)>>
                    [((k - 1) % 3) + 1]]),
         normals |-> Float32Array(
            [k \in 1..(3 * count) |-> <<Num(0), Num(0), Num(1)>>[((k - 1) % 3) + 1]]),
         indices |-> Uint16Array(
            [k \in 1..(6 * heightSegments * widthSegments) |->
                quad(((k - 1) \div 6) \div widthSegments,
                     ((k - 1) \div 6) % widthSegments)[((k - 1) % 6) + 1]])]

\* what one pass of a loop of generateProteinGeometry pushes for a generated
\* mesh: its vertices moved by t, its normals, the colour once per vertex, its
\* indices plus currentIndex
Placed(mesh, t, color, currentIndex) ==
    [vertices |-> [i \in 1..Len(mesh.vertices) |-> TAdd(mesh.vertices[i], t[((i - 1) % 3) + 1])],
     normals  |-> [i \in 1..Len(mesh.vertices) |-> mesh.normals[i]],
     colors   |-> [i \in 1..Len(mesh.vertices) |-> color[((i - 1) % 3) + 1]],
     indices  |-> [i \in 1..Len(mesh.indices) |-> mesh.indices[i] + currentIndex]]

\* generateProteinGeometry is two loops that only append to four arrays and
\* convert them to typed arrays at the end.  Its state is kept per pass: how
\* many submeshes are done, currentIndex, the length of each array, and the
\* part of each returned typed array that the last pass contributed
\* (conversion is element by element, so the part is converted here).
GeometryStart ==
    [done |-> 0, currentIndex |-> 0,
     length |-> [vertices |-> 0, normals |-> 0, colors |-> 0, indices |-> 0],
     part |-> [vertices |-> <<>>, normals |-> <<>>, colors |-> <<>>, indices |-> <<>>]]

Pushed(g, mesh, placed) ==
    [done |-> g.done + 1,
     currentIndex |-> g.currentIndex + Len(mesh.vertices) \div 3,
     length |-> [vertices |-> g.length.vertices + Len(placed.vertices),
                 normals  |-> g.length.normals + Len(placed.normals),
                 colors   |-> g.length.colors + Len(placed.colors),
                 indices  |-> g.length.indices + Len(placed.indices)],
     part |-> [vertices |-> Float32Array(placed.vertices),
               normals  |-> Float32Array(placed.normals),
               colors   |-> Float32Array(placed.colors),
               indices  |-> Uint16Array(placed.indices)]]

\* one pass of the loop over ballAndStick.atomGeometries (sphereGenerator is
\* createSphere)
AddAtom(g, atomGeom) ==
    LET sphere == createSphere(atomGeom.radius, 10, 10)
    IN  Pushed(g, sphere, Placed(sphere, atomGeom.position, atomGeom.color, g.currentIndex))

\* one pass of the loop over ballAndStick.bondGeometries (cylinderGenerator is
\* createCylinder)
AddBond(g, bondGeom) ==
    LET dx == NumSub(bondGeom.end[1], bondGeom.start[1])
        dy == NumSub(bondGeom.end[2], bondGeom.start[2])
        dz == NumSub(bondGeom.end[3], bondGeom.start[3])
        length == TSqrt(NumAdd(NumAdd(NumMul(dx, dx), NumMul(dy, dy)), NumMul(dz, dz)))
        cylinder == createCylinder(bondGeom.radius, bondGeom.radius, length, 8)
        mid == [c \in 1..3 |-> NumDivInt(NumAdd(bondGeom.start[c], bondGeom.end[c]), 2)]
    IN  Pushed(g, cylinder, Placed(cylinder, mid, bondGeom.color, g.currentIndex))

\* the returned object: the typed arrays, by length and last part
GeometryResult(g) == Returned([length |-> g.length, part |-> g.part])

-----------------------------------------------------------------------------
(* pdb-loader.js: colours, radii, generateProteinGeometrySimple *)

LowerCase == <<"a", "b", "c", "d", "e", "f", "g", "h", "i", "j", "k", "l", "m",
               "n", "o", "p", "q", "r", "s", "t", "u", "v", "w", "x", "y", "z">>
UpperCase == <<"A", "B", "C", "D", "E", "F", "G", "H", "I", "J", "K", "L", "M",
               "N", "O", "P", "Q", "R", "S", "T", "U", "V", "W", "X", "Y", "Z">>

\* String.prototype.toUpperCase
ToUpperCase(s) ==
    [i \in 1..Len(s) |->
        IF \E k \in 1..Len(LowerCase) : LowerCase[k] = s[i]
        THEN UpperCase[CHOOSE k \in 1..Len(LowerCase) : LowerCase[k] = s[i]]
        ELSE s[i]]

\* table[key] || fallback, for a table whose values are all truthy
Lookup(table, key, fallback) ==
    IF \E i \in 1..Len(table) : table[i].key = key
    THEN table[CHOOSE i \in 1..Len(table) : table[i].key = key].value
    ELSE fallback

\* x || fallback for a number x: undefined, 0 and NaN are falsy
OrDefault(x, fallback) ==
    IF x = Undefined THEN fallback
    ELSE IF x.nan \/ x.n = 0 THEN fallback
    ELSE x

\* function getCPKColor(element)
getCPKColor(element) ==
    Lookup(<<[key |-> <<"H">>,      value |-> <<Num(1), Num(1), Num(1)>>],
             [key |-> <<"C">>,      value |-> <<Rat(1, 5), Rat(1, 5), Rat(1, 5)>>],
             [key |-> <<"N">>,      value |-> <<Num(0), Num(0), Num(1)>>],
             [key |-> <<"O">>,      value |-> <<Num(1), Num(0), Num(0)>>],
             [key |-> <<"S">>,      value |-> <<Num(1), Num(1), Num(0)>>],
             [key |-> <<"P">>,      value |-> <<Num(1), Rat(1, 2), Num(0)>>],
             [key |-> <<"F">>,      value |-> <<Num(0), Num(1), Num(0)>>],
             [key |-> <<"C", "L">>, value |-> <<Num(0), Num(1), Num(0)>>],
             [key |-> <<"B", "R">>, value |-> <<Rat(1, 2), Num(0), Num(0)>>],
             [key |-> <<"I">>,      value |-> <<Rat(1, 2), Num(0), Rat(1, 2)>>],
             [key |-> <<"F", "E">>, value |-> <<Num(1), Rat(1, 2), Num(0)>>],
             [key |-> <<"C", "A">>, value |-> <<Num(0), Num(1), Num(0)>>]>>,
           ToUpperCase(element),
           <<Rat(4, 5), Num(0), Rat(4, 5)>>)

\* function getVDWRadius(element)
getVDWRadius(element) ==
    Lookup(<<[key |-> <<"H">>, value |-> Rat(3, 10)],
             [key |-> <<"C">>, value |-> Rat(4, 10)],
             [key |-> <<"N">>, value |-> Rat(35, 100)],
             [key |-> <<"O">>, value |-> Rat(35, 100)],
             [key |-> <<"S">>, value |-> Rat(45, 100)],
             [key |-> <<"P">>, value |-> Rat(45, 100)]>>,
           ToUpperCase(element),
           Rat(4, 10))

\* function generateProteinGeometrySimple(proteinData, options = {})
generateProteinGeometrySimple(proteinData, options) ==
    LET atomScale == OrDefault(options.atomScale, Rat(3, 10))
        atoms == proteinData.atoms
        bonds == proteinData.bonds
        defined(k) == k >= 0 /\ k < Len(atoms)
    IN  IF \E b \in 1..Len(bonds) : ~defined(bonds[b].atom1) \/ ~defined(bonds[b].atom2)
        THEN Thrown
        ELSE Returned(
               [atoms |->
                   [positions |-> Flatten([i \in 1..Len(atoms) |->
                                              <<atoms[i].x, atoms[i].y, atoms[i].z>>]),
                    colors    |-> Flatten([i \in 1..Len(atoms) |-> getCPKColor(atoms[i].element)]),
                    radii     |-> [i \in 1..Len(atoms) |->
                                      NumMul(getVDWRadius(atoms[i].element), atomScale)],
                    elements  |-> [i \in 1..Len(atoms) |-> atoms[i].element]],
                bonds |->
                   [positions |-> Flatten([b \in 1..Len(bonds) |->
                                              <<atoms[bonds[b].atom1 + 1].x,
                                                atoms[bonds[b].atom1 + 1].y,
                                                atoms[bonds[b].atom1 + 1].z,
                                                atoms[bonds[b].atom2 + 1].x,
                                                atoms[bonds[b].atom2 + 1].y,
                                                atoms[bonds[b].atom2 + 1].z>>]),
                    colors    |-> Flatten([b \in 1..Len(bonds) |->
                                              [k \in 1..6 |-> Rat(1, 2)]])]])

\* function createBallAndStick(proteinData, options = {})
createBallAndStick(proteinData, options) ==
    LET atomScale  == OrDefault(options.atomScale, Rat(3, 10))
        bondRadius == OrDefault(options.bondRadius, Rat(1, 10))
        atoms == proteinData.atoms
        bonds == proteinData.bonds
        defined(k) == k >= 0 /\ k < Len(atoms)
    IN  IF \E b \in 1..Len(bonds) : ~defined(bonds[b].atom1) \/ ~defined(bonds[b].atom2)
        THEN Thrown
        ELSE Returned(
               [atomGeometries |->
                   [i \in 1..Len(atoms) |->
                       [position |-> <<atoms[i].x, atoms[i].y, atoms[i].z>>,
                        radius   |-> NumMul(getVDWRadius(atoms[i].element), atomScale),
                        color    |-> getCPKColor(atoms[i].element),
                        element  |-> atoms[i].element]],
                bondGeometries |->
                   [b \in 1..Len(bonds) |->
                       [start  |-> <<atoms[bonds[b].atom1 + 1].x, atoms[bonds[b].atom1 + 1].y,
                                     atoms[bonds[b].atom1 + 1].z>>,
                        end    |-> <<atoms[bonds[b].atom2 + 1].x, atoms[bonds[b].atom2 + 1].y,
                                     atoms[bonds[b].atom2 + 1].z>>,
                        radius |-> bondRadius,
                        color  |-> <<Rat(1, 2), Rat(1, 2), Rat(1, 2)>>]]])

\* the colours generateBackboneGeometry gives the chains in turn
chainColors ==
    <<<<Rat(1, 5), Rat(3, 5), Num(1)>>,
      <<Num(1), Rat(1, 2), Num(0)>>,
      <<Num(0), Rat(4, 5), Rat(3, 10)>>,
      <<Rat(9, 10), Rat(1, 5), Rat(1, 2)>>,
      <<Rat(7, 10), Rat(7, 10), Num(0)>>,
      <<Rat(1, 2), Num(0), Rat(4, 5)>>>>

\* function generateBackboneGeometry(backboneTrace, scale = 1.0)
generateBackboneGeometry(backboneTrace, scale) ==
    LET s == IF scale = Undefined THEN Num(1) ELSE scale
        chains   == backboneTrace.chains
        segments == backboneTrace.segments
        chainColorMap ==
            [i \in 1..Len(chains) |->
                [key |-> chains[i], value |-> chainColors[((i - 1) % Len(chainColors)) + 1]]]
        color(seg) == Lookup(chainColorMap, seg.chainId, <<Rat(4, 5), Rat(4, 5), Rat(4, 5)>>)
    IN  [positions |-> Flatten([k \in 1..Len(segments) |->
                                   <<NumMul(segments[k].start.x, s),
                                     NumMul(segments[k].start.y, s),
                                     NumMul(segments[k].start.z, s),
                                     NumMul(segments[k].end.x, s),
                                     NumMul(segments[k].end.y, s),
                                     NumMul(segments[k].end.z, s)>>]),
         colors    |-> Flatten([k \in 1..Len(segments) |-> color(segments[k]) \o color(segments[k])])]

-----------------------------------------------------------------------------
(* Inputs *)

\* string literals, as character sequences
T_CA == <<"C", "A">>
T_ALA == <<"A", "L", "A">>
T_A == <<"A">>
T_B == <<"B">>
T_C == <<"C">>
T_H == <<"H">>
T_N == <<"N">>
T_ATOM == <<"A", "T", "O", "M", " ", " ">>
T_HETATM == <<"H", "E", "T", "A", "T", "M">>
T_ATOMS == <<"A", "T", "O", "M", "S", " ">>
T_ATOM_X == <<"A", "T", "O", "M", " ", "X">>
T_REMARK == <<"R", "E", "M", "A", "R", "K">>
T_atom == <<"a", "t", "o", "m", " ", " ">>
T_ATOM_SHIFTED == <<" ", "A", "T", "O", "M", " ">>
T_NAME_CA == <<" ", "C", "A", " ">>
T_NAME_C == <<" ", "C", " ", " ">>
T_NAME_N == <<" ", "N", " ", " ">>
T_NAME_H == <<" ", "H", " ", " ">>
T_NAME_FE == <<"F", "E", " ", " ">>
T_0000 == <<"0", ".", "0", "0", "0">>
T_1000 == <<"1", ".", "0", "0", "0">>
T_1500 == <<"1", ".", "5", "0", "0">>
T_9000 == <<"9", ".", "0", "0", "0">>
T_N1500 == <<"-", "1", ".", "5", "0", "0">>
T_BAD == <<"?">>
T_BADF == <<"?", ".", "?", "?", "?">>
T_1BAD == <<"1", "?", ".", "0", "0", "0">>
T_OCC == <<" ", " ", "1", ".", "0", "0">>
T_TEMP == <<" ", " ", "0", ".", "0", "0">>
T_1 == <<"1">>
T_2 == <<"2">>
T_3 == <<"3">>
T_4 == <<"4">>
T_5 == <<"5">>
T_6 == <<"6">>
T_7 == <<"7">>
T_8 == <<"8">>
T_9 == <<"9">>

\* bounds of the inputs
MaxAtoms == 3
MaxLines == 2

SeqsUpTo(S, n) == UNION {[1..k -> S] : k \in 0..n}

Point(x, y, z) == <<x, y, z>>

\* positions around the bonding distance: 1.5 and sqrt(3) are inside 1.8,
\* 1.8 itself and sqrt(3.42) are not
BondPoints ==
    {Point(Num(0), Num(0), Num(0)),
     Point(Num(0), Num(0), Rat(3, 2)),
     Point(Num(0), Num(0), Rat(9, 5)),
     Point(Num(1), Num(1), Num(1)),
     Point(Rat(11, 10), Rat(11, 10), Num(1))}

BondAtoms ==
    {Atom(Num(1), T_CA, T_ALA, T_A, Num(1), p[1], p[2], p[3], e) :
        p \in BondPoints, e \in {T_C, T_H}}

BondAtomSeqs == SeqsUpTo(BondAtoms, MaxAtoms)

Thresholds == {Undefined, Num(1), Rat(3, 2)}

\* what extractBackboneTrace looks at in an atom: name, chain, residue number
TraceKinds ==
    {[name |-> T_CA, chainId |-> c, resSeq |-> r] :
        c \in {T_A, <<>>, T_B, T_1}, r \in {1, 3, 4}}
        \cup {[name |-> T_N, chainId |-> T_A, resSeq |-> 3]}

\* atoms of the given kinds; the i-th atom of the file sits at x = i, so
\* that a segment's end points tell which atoms it joins
TraceAtomsOf(kinds) ==
    [i \in 1..Len(kinds) |->
        Atom(Num(i), kinds[i].name, T_ALA, kinds[i].chainId, Num(kinds[i].resSeq),
             Num(i), Num(0), Num(0), T_C)]

TraceAtomSeqs == {TraceAtomsOf(kinds) : kinds \in SeqsUpTo(TraceKinds, MaxAtoms)}

\* bounds of the OBJ texts
MaxPositions == 4
MaxNormals == 1
MaxTexCoords == 1
MaxFaces == 2

\* the k-th 'v', 'vn' and 'vt' record of a text
VLines ==
    <<<<"v", " ", "0", " ", "0", " ", "0">>,
      <<"v", " ", "1", " ", "0", " ", "0">>,
      <<"v", " ", "0", " ", "1", " ", "0">>,
      <<"v", " ", "1", " ", "1", " ", "0">>,
      <<"v", " ", "0", " ", "0", " ", "1">>,
      <<"v", " ", "1", " ", "0", " ", "1">>>>

VNLines ==
    <<<<"v", "n", " ", "0", " ", "0", " ", "1">>,
      <<"v", "n", " ", "1", " ", "0", " ", "0">>,
      <<"v", "n", " ", "0", " ", "1", " ", "0">>>>

VTLines ==
    <<<<"v", "t", " ", "0", " ", "0">>,
      <<"v", "t", " ", "1", " ", "0">>,
      <<"v", "t", " ", "0", " ", "1">>>>

\* face records: triangles of both windings, a quad, a pentagon, with
\* normals, with texture coordinates, a two-vertex face, and references
\* that are zero, negative or past the end
FaceLines ==
    {<<"f", " ", "1", " ", "2", " ", "3">>,
     <<"f", " ", "1", " ", "3", " ", "2">>,
     <<"f", " ", "1", " ", "2", " ", "4", " ", "3">>,
     <<"f", " ", "1", " ", "2", " ", "4", " ", "3", " ", "1">>,
     <<"f", " ", "1", "/", "/", "1", " ", "2", "/", "/", "1", " ", "3", "/", "/", "1">>,
     <<"f", " ", "1", "/", "1", "/", "1", " ", "2", "/", "1", "/", "1", " ", "3", "/", "1", "/", "1">>,
     <<"f", " ", "1", "/", "2", "/", "1", " ", "2", "/", "/", "1", " ", "4", "/", "/", "1">>,
     <<"f", " ", "1", " ", "2">>,
     <<"f", " ", "0", " ", "1", " ", "2">>,
     <<"f", " ", "-", "1", " ", "1", " ", "2">>,
     <<"f", " ", "1", " ", "2", " ", "9">>,
     <<"f", " ", "1", "/", "/", "9", " ", "2", "/", "/", "1", " ", "3", "/", "/", "1">>}

\* a comment, an empty line, an unknown record, a blank line
SkippedLines ==
    {<<"#", " ", "c", "u", "b", "e">>,
     <<>>,
     <<"g", " ", "s", "i", "d", "e">>,
     <<" ", " ">>}

Sp(n) == [i \in 1..n |-> " "]
PadLeft(s, w) == Sp(w - Len(s)) \o s

\* one record in the PDB column layout, 78 columns
MkLine(rec, serial, name, chain, resSeq, x, y, z, elem) ==
    rec \o PadLeft(serial, 5) \o Sp(1) \o name \o Sp(1) \o T_ALA \o Sp(1) \o chain
        \o PadLeft(resSeq, 4) \o Sp(4) \o PadLeft(x, 8) \o PadLeft(y, 8) \o PadLeft(z, 8)
        \o T_OCC \o T_TEMP \o Sp(10) \o PadLeft(elem, 2)

\* the two carbons of the specification's scenario
LineCarbon0 == MkLine(T_ATOM, T_1, T_NAME_CA, T_A, T_1, T_0000, T_0000, T_0000, T_C)
LineCarbon1 == MkLine(T_ATOM, T_2, T_NAME_C, T_A, T_1, T_0000, T_0000, T_1500, T_C)

ScenarioText == LineCarbon0 \o <<"\n">> \o LineCarbon1

RecordLines ==
    {MkLine(rec, T_3, T_NAME_CA, T_A, T_2, T_0000, T_0000, T_1000, T_C) :
        rec \in {T_HETATM, T_ATOMS, T_ATOM_X, T_REMARK, T_atom, T_ATOM_SHIFTED}}

MalformedLines ==
    {MkLine(T_ATOM, T_BAD, T_NAME_CA, T_A, T_2, T_0000, T_0000, T_1000, T_C),
     MkLine(T_ATOM, T_4, T_NAME_CA, T_A, T_BAD, T_0000, T_0000, T_1000, T_C),
     MkLine(T_ATOM, T_4, T_NAME_CA, T_A, T_2, T_BADF, T_0000, T_1000, T_C),
     MkLine(T_ATOM, T_4, T_NAME_CA, T_A, T_2, T_0000, T_BADF, T_1000, T_C),
     MkLine(T_ATOM, T_4, T_NAME_CA, T_A, T_2, T_0000, T_0000, T_BADF, T_C),
     MkLine(T_ATOM, T_4, T_NAME_CA, T_A, T_2, T_0000, T_0000, T_1BAD, T_C)}

GuessLines ==
    {MkLine(T_ATOM, T_5, name, T_A, T_3, T_0000, T_0000, T_1000, Sp(2)) :
        name \in {T_NAME_N, T_NAME_H, T_NAME_FE, Sp(4)}}

ShortLines == {Substring(LineCarbon0, 0, k) : k \in {6, 16, 26, 54}}

OtherLines ==
    {MkLine(T_ATOM, T_6, T_NAME_H, T_A, T_1, T_0000, T_0000, T_1000, T_H),
     MkLine(T_ATOM, T_7, T_NAME_CA, T_B, T_9, T_9000, T_0000, T_0000, T_C),
     MkLine(T_ATOM, T_8, T_NAME_N, T_A, T_2, T_0000, T_0000, T_N1500, T_N),
     <<>>}

PDBLines ==
    {LineCarbon0, LineCarbon1} \cup RecordLines \cup MalformedLines \cup GuessLines
        \cup ShortLines \cup OtherLines

RECURSIVE JoinLines(_)
JoinLines(ls) ==
    IF ls = <<>> THEN <<>>
    ELSE IF Len(ls) = 1 THEN ls[1]
    ELSE ls[1] \o <<"\n">> \o JoinLines(Tail(ls))

PDBTexts == {JoinLines(ls) : ls \in SeqsUpTo(PDBLines, MaxLines)}

\* atom and bond geometries as createBallAndStick builds them: carbon and
\* oxygen spheres (van der Waals radius * 0.3), grey bonds of radius 0.1
MaxGeomAtoms == 2
MaxGeomBonds == 2

GeomPoints == {Point(Num(0), Num(0), Num(0)), Point(Num(0), Num(0), Rat(3, 2))}

AtomGeom(p, radius, color, element) ==
    [position |-> p, radius |-> radius, color |-> color, element |-> element]

BondGeom(p, q) ==
    [start |-> p, end |-> q, radius |-> Rat(1, 10),
     color |-> <<Rat(1, 2), Rat(1, 2), Rat(1, 2)>>]

AtomGeoms ==
    {AtomGeom(p, Rat(12, 100), <<Rat(1, 5), Rat(1, 5), Rat(1, 5)>>, T_C) : p \in GeomPoints}
    \cup {AtomGeom(p, Rat(105, 1000), <<Num(1), Num(0), Num(0)>>, <<"O">>) : p \in GeomPoints}

BondGeoms ==
    {BondGeom(Point(Num(0), Num(0), Num(0)), Point(Num(0), Num(0), Rat(3, 2))),
     BondGeom(Point(Num(0), Num(0), Num(0)), Point(Num(1), Num(1), Num(1))),
     BondGeom(Point(Num(0), Num(0), Num(0)), Point(Num(0), Num(0), Num(0)))}

\* the fewest 10x10 spheres whose vertices no longer fit a 16-bit index
OverflowAtoms == (65536 \div ((10 + 1) * (10 + 1))) + 1

ManyAtoms ==
    [k \in 1..OverflowAtoms |->
        AtomGeom(Point(Num(0), Num(0), Num(0)), Rat(12, 100),
                 <<Rat(1, 5), Rat(1, 5), Rat(1, 5)>>, T_C)]

BallAndSticks ==
    {[atomGeometries |-> as, bondGeometries |-> bs] :
        as \in SeqsUpTo(AtomGeoms, MaxGeomAtoms), bs \in SeqsUpTo(BondGeoms, MaxGeomBonds)}

\* molecules for generateProteinGeometrySimple: elements in and out of the
\* tables, in upper and lower case; the i-th atom sits at (i, 0, i/2); bonds
\* between any two atoms; the atomScale option missing, zero and positive
MaxSimpleAtoms == 2
MaxSimpleBonds == 2

SimpleElements == {<<"C">>, <<"c">>, <<"H">>, <<"O">>, <<"F", "e">>, <<"X">>}

SimpleAtomsOf(elements) ==
    [i \in 1..Len(elements) |->
        Atom(Num(i), T_CA, T_ALA, T_A, Num(i), Num(i), Num(0), Rat(i, 2), elements[i])]

SimpleAtomSeqs == {SimpleAtomsOf(es) : es \in SeqsUpTo(SimpleElements, MaxSimpleAtoms)}

SimpleBondsOf(atoms) ==
    SeqsUpTo({[atom1 |-> i, atom2 |-> j, distance |-> Num(1)] :
                 i \in 0..(Len(atoms) - 1), j \in 0..(Len(atoms) - 1)} , MaxSimpleBonds)

AtomScales == {Undefined, Num(0), Rat(3, 10), Num(1), Num(2)}

\* the scale argument of generateBackboneGeometry: omitted, and the scene's 0.3
BackboneScales == {Undefined, Rat(3, 10)}

\* arguments of the primitive generators: segment counts from 0, so that the
\* degenerate calls are among them
MaxSegments == 4

Sizes == {Num(1), Rat(1, 2), Num(2)}
Radii == {Num(1), Rat(1, 2)}
SegmentCounts == 0..MaxSegments

-----------------------------------------------------------------------------
(* webgl-scene.js: camera, view mode, protein loading *)

Null == [null |-> TRUE]

\* the state of a global variable that no statement has declared or assigned
Undeclared == [undeclared |-> TRUE]

\* an angle halfPis * (pi / 2) + plus, `plus` a rational: what rotationX can
\* be after additions of multiples of 0.01 and clamping to +-pi/2
Angle(halfPis, plus) == [halfPis |-> halfPis, plus |-> plus]

\* rational bounds of Math.PI
PiLow == Rat(314159, 100000)
PiHigh == Rat(31416, 10000)

\* is the angle > 0?  (no multiple of 0.01 lies between the bounds of a
\* multiple of pi / 2, so the bound used decides)
AnglePositive(a) ==
    NumLt(Num(0),
          NumAdd(NumMul(Rat(a.halfPis, 2), IF a.halfPis >= 0 THEN PiLow ELSE PiHigh), a.plus))

AngleNegative(a) ==
    NumLt(NumAdd(NumMul(Rat(a.halfPis, 2), IF a.halfPis >= 0 THEN PiHigh ELSE PiLow), a.plus),
          Num(0))

\* a clamp that lets the angle reach pi before it stops it
ClampRotationXToPi(a) ==
    IF AnglePositive(Angle(a.halfPis - 2, a.plus)) THEN Angle(2, Num(0))
    ELSE IF AngleNegative(Angle(a.halfPis + 2, a.plus)) THEN Angle(-2, Num(0))
    ELSE a

\* Math.max(-Math.PI / 2, Math.min(Math.PI / 2, rotationX))
ClampRotationX(a) ==
    IF AnglePositive(Angle(a.halfPis - 1, a.plus)) THEN Angle(1, Num(0))
    ELSE IF AngleNegative(Angle(a.halfPis + 1, a.plus)) THEN Angle(-1, Num(0))
    ELSE a

defaultCameraDistance == Num(10)
proteinCameraDistance == Num(25)
defaultRotationX == Angle(0, Rat(-3, 10))
defaultRotationY == Num(0)

\* the options of the two select elements
ViewModes == {"protein", "backbone", "cubes"}
Id5IYN == <<"5", "I", "Y", "N">>
Id1CRN == <<"1", "c", "r", "n">>
ProteinIds == {Id5IYN, Id1CRN}

\* what files.rcsb.org holds at .../download/<ID>.pdb: 5IYN with a CA and a
\* C atom of one residue, 1CRN with the CA atoms of two residues
RCSBFile(id) ==
    IF id = Id5IYN THEN ScenarioText
    ELSE LineCarbon0 \o <<"\n">>
            \o MkLine(T_ATOM, T_2, T_NAME_CA, T_A, T_2, T_0000, T_0000, T_1500, T_C)

\* loadPDB(url) when the fetch resolves with an OK response
loadPDB(id) == parsePDB(RCSBFile(id))

\* fetchPDBFromRCSB(pdbId) when the fetch resolves with an OK response
fetchPDBFromRCSB(pdbId) == loadPDB(ToUpperCase(pdbId))

\* the cursor positions of the mouse events
MouseXs == {0, 200}
MouseYs == {0, 200}

\* |rotationY| stays within this many radians
MaxRotationY == 2

\* at most this many fetches are in flight
MaxPending == 2

\* the rendering branch of render(): which draw function it calls, or the
\* ReferenceError of reading a variable that was never declared or assigned
render(mode, loaded, backbone) ==
    IF mode = "protein" /\ loaded THEN "renderProtein"
    ELSE IF mode = "backbone"
         THEN IF backbone = Undeclared THEN "ReferenceError" ELSE "renderBackbone"
    ELSE "renderCubes"

\* the history after a handler: its event and what its render() call did
\* ("none" when it does not call render)
Logged(event, rendered) == [history EXCEPT !.event = event, !.rendered = rendered]

\* the script has run to its end: the camera at its defaults, the protein
\* view, nothing loaded, and the start-up call loadProteinStructure('5IYN')
\* waiting for its fetch; `selected` is the option the selector shows
SceneLoaded(selected) ==
    /\ rotationX = defaultRotationX
    /\ rotationY = defaultRotationY
    /\ isDragging = FALSE
    /\ lastMouseX = 0
    /\ lastMouseY = 0
    /\ viewMode = "protein"
    /\ currentCameraDistance = proteinCameraDistance
    /\ protein = [proteinData |-> Null, proteinGeometry |-> Null,
                  backboneGeometry |-> Undeclared, proteinLoaded |-> FALSE]
    /\ selector = selected
    /\ pending = <<Id5IYN>>
    /\ history = [event |-> "startup", rendered |-> "none", requested |-> Id5IYN,
                  failed |-> FALSE]

-----------------------------------------------------------------------------
(* The calls *)

Init ==
    /\ pc = "idle"
    /\ arg = None
    /\ mem = None
    /\ ret = None
    /\ obj = None
    /\ SceneLoaded(Id5IYN)

CallCalculateBonds ==
    /\ pc = "idle"
    /\ \E atoms \in BondAtomSeqs, t \in Thresholds :
          /\ arg' = [atoms |-> atoms, maxBondDistance |-> t]
          /\ mem' = [atoms |-> atoms]
          /\ ret' = Returned(calculateBonds(atoms, t))
    /\ pc' = "calculateBonds"
    /\ UNCHANGED <<obj, sceneVars>>

CallCenterMolecule ==
    /\ pc = "idle"
    /\ \E atoms \in BondAtomSeqs :
          /\ arg' = [atoms |-> atoms]
          /\ mem' = [atoms |-> centerMolecule(atoms)]
          /\ ret' = Returned(Undefined)
    /\ pc' = "centerMolecule"
    /\ UNCHANGED <<obj, sceneVars>>

CallParsePDB ==
    /\ pc = "idle"
    /\ \E text \in PDBTexts :
          /\ arg' = [text |-> text]
          /\ mem' = [text |-> text]
          /\ ret' = parsePDB(text)
    /\ pc' = "parsePDB"
    /\ UNCHANGED <<obj, sceneVars>>

\* a call that sorts the caller's atom list by residue number while it
\* groups the chains
CallExtractBackboneTraceSortingInPlace ==
    /\ pc = "idle"
    /\ \E atoms \in TraceAtomSeqs :
          /\ arg' = [proteinData |-> [atoms |-> atoms, bonds |-> <<>>]]
          /\ mem' = [proteinData |-> [atoms |-> SortByResSeq(atoms), bonds |-> <<>>]]
          /\ ret' = extractBackboneTrace([atoms |-> atoms, bonds |-> <<>>])
    /\ pc' = "extractBackboneTrace"
    /\ UNCHANGED <<obj, sceneVars>>

CallExtractBackboneTrace ==
    /\ pc = "idle"
    /\ \E atoms \in TraceAtomSeqs :
          /\ arg' = [proteinData |-> [atoms |-> atoms, bonds |-> <<>>]]
          /\ mem' = [proteinData |-> [atoms |-> atoms, bonds |-> <<>>]]
          /\ ret' = extractBackboneTrace([atoms |-> atoms, bonds |-> <<>>])
    /\ pc' = "extractBackboneTrace"
    /\ UNCHANGED <<obj, sceneVars>>

\* parseOBJ(text) is entered: the locals are initialised
StartParseOBJ ==
    /\ pc = "idle"
    /\ pc' = "parseOBJ.lines"
    /\ obj' = InitialObj
    /\ UNCHANGED <<arg, mem, ret, sceneVars>>

\* the loop reads a 'v' record
ReadPosition ==
    /\ pc = "parseOBJ.lines"
    /\ Len(obj.positions) < 3 * MaxPositions
    /\ obj' = ProcessLine(obj, VLines[Len(obj.positions) \div 3 + 1])
    /\ UNCHANGED <<pc, arg, mem, ret, sceneVars>>

\* the loop reads a 'vn' record
ReadNormal ==
    /\ pc = "parseOBJ.lines"
    /\ Len(obj.normals) < 3 * MaxNormals
    /\ obj' = ProcessLine(obj, VNLines[Len(obj.normals) \div 3 + 1])
    /\ UNCHANGED <<pc, arg, mem, ret, sceneVars>>

\* the loop reads a 'vt' record
ReadTexCoord ==
    /\ pc = "parseOBJ.lines"
    /\ Len(obj.texCoords) < 2 * MaxTexCoords
    /\ obj' = ProcessLine(obj, VTLines[Len(obj.texCoords) \div 2 + 1])
    /\ UNCHANGED <<pc, arg, mem, ret, sceneVars>>

\* the loop reads an 'f' record
ReadFace ==
    /\ pc = "parseOBJ.lines"
    /\ obj.faces < MaxFaces
    /\ \E line \in FaceLines : obj' = ProcessLine(obj, line)
    /\ UNCHANGED <<pc, arg, mem, ret, sceneVars>>

\* the loop reads a line that is skipped
ReadSkipped ==
    /\ pc = "parseOBJ.lines"
    /\ \E line \in SkippedLines : obj' = ProcessLine(obj, line)
    /\ UNCHANGED <<pc, arg, mem, ret, sceneVars>>

\* the text ends: fallback normals, typed arrays, return
EndOfText ==
    /\ pc = "parseOBJ.lines"
    /\ pc' = "parseOBJ"
    /\ ret' = FinishOBJ(obj)
    /\ UNCHANGED <<arg, mem, obj, sceneVars>>

\* the caller drops the mesh
ReturnOBJ ==
    /\ pc = "parseOBJ"
    /\ pc' = "idle"
    /\ ret' = None
    /\ obj' = None
    /\ UNCHANGED <<arg, mem, sceneVars>>

StartGenerateProteinGeometry ==
    /\ pc = "idle"
    /\ \E ballAndStick \in BallAndSticks : arg' = [ballAndStick |-> ballAndStick]
    /\ mem' = GeometryStart
    /\ pc' = "generateProteinGeometry.loops"
    /\ UNCHANGED <<ret, obj, sceneVars>>

\* the same entry for a molecule of OverflowAtoms atoms
StartGenerateManyAtoms ==
    /\ pc = "idle"
    /\ arg' = [ballAndStick |-> [atomGeometries |-> ManyAtoms, bondGeometries |-> <<>>]]
    /\ mem' = GeometryStart
    /\ pc' = "generateProteinGeometry.loops"
    /\ UNCHANGED <<ret, obj, sceneVars>>

\* the first loop takes the next atom geometry
NextAtomGeometry ==
    /\ pc = "generateProteinGeometry.loops"
    /\ mem.done < Len(arg.ballAndStick.atomGeometries)
    /\ mem' = AddAtom(mem, arg.ballAndStick.atomGeometries[mem.done + 1])
    /\ UNCHANGED <<pc, arg, ret, obj, sceneVars>>

\* the second loop takes the next bond geometry
NextBondGeometry ==
    /\ pc = "generateProteinGeometry.loops"
    /\ mem.done >= Len(arg.ballAndStick.atomGeometries)
    /\ mem.done < Len(arg.ballAndStick.atomGeometries) + Len(arg.ballAndStick.bondGeometries)
    /\ mem' = AddBond(mem,
                      arg.ballAndStick.bondGeometries[mem.done + 1
                                                      - Len(arg.ballAndStick.atomGeometries)])
    /\ UNCHANGED <<pc, arg, ret, obj, sceneVars>>

\* both loops are over: typed arrays, return
EndOfGeometries ==
    /\ pc = "generateProteinGeometry.loops"
    /\ mem.done = Len(arg.ballAndStick.atomGeometries) + Len(arg.ballAndStick.bondGeometries)
    /\ ret' = GeometryResult(mem)
    /\ pc' = "generateProteinGeometry"
    /\ UNCHANGED <<arg, mem, obj, sceneVars>>

CallGenerateProteinGeometrySimple ==
    /\ pc = "idle"
    /\ \E atoms \in SimpleAtomSeqs, atomScale \in AtomScales :
          \E bonds \in SimpleBondsOf(atoms) :
             /\ arg' = [proteinData |-> [atoms |-> atoms, bonds |-> bonds],
                        options |-> [atomScale |-> atomScale]]
             /\ ret' = generateProteinGeometrySimple([atoms |-> atoms, bonds |-> bonds],
                                                     [atomScale |-> atomScale])
             /\ mem' = [proteinData |-> [atoms |-> atoms, bonds |-> bonds]]
    /\ pc' = "generateProteinGeometrySimple"
    /\ UNCHANGED <<obj, sceneVars>>

CallCreateBallAndStick ==
    /\ pc = "idle"
    /\ \E atoms \in SimpleAtomSeqs, atomScale \in AtomScales :
          \E bonds \in SimpleBondsOf(atoms) :
             /\ arg' = [proteinData |-> [atoms |-> atoms, bonds |-> bonds],
                        options |-> [atomScale |-> atomScale, bondRadius |-> Undefined]]
             /\ mem' = [proteinData |-> [atoms |-> atoms, bonds |-> bonds]]
             /\ ret' = createBallAndStick([atoms |-> atoms, bonds |-> bonds],
                                          [atomScale |-> atomScale, bondRadius |-> Undefined])
    /\ pc' = "createBallAndStick"
    /\ UNCHANGED <<obj, sceneVars>>

CallGenerateBackboneGeometry ==
    /\ pc = "idle"
    /\ \E atoms \in TraceAtomSeqs, scale \in BackboneScales :
          LET backboneTrace == extractBackboneTrace([atoms |-> atoms, bonds |-> <<>>]).value
          IN  /\ arg' = [backboneTrace |-> backboneTrace, scale |-> scale]
              /\ mem' = [backboneTrace |-> backboneTrace]
              /\ ret' = Returned(generateBackboneGeometry(backboneTrace, scale))
    /\ pc' = "generateBackboneGeometry"
    /\ UNCHANGED <<obj, sceneVars>>

CallCreateCube ==
    /\ pc = "idle"
    /\ \E size \in Sizes :
          /\ arg' = [size |-> size]
          /\ ret' = Returned(createCube(size))
    /\ mem' = None
    /\ pc' = "createCube"
    /\ UNCHANGED <<obj, sceneVars>>

CallCreateSphere ==
    /\ pc = "idle"
    /\ \E radius \in Radii, latitudeBands \in SegmentCounts, longitudeBands \in SegmentCounts :
          /\ arg' = [radius |-> radius, latitudeBands |-> latitudeBands,
                     longitudeBands |-> longitudeBands]
          /\ ret' = Returned(createSphere(radius, latitudeBands, longitudeBands))
    /\ mem' = None
    /\ pc' = "createSphere"
    /\ UNCHANGED <<obj, sceneVars>>

CallCreateCylinder ==
    /\ pc = "idle"
    /\ \E radiusTop \in Radii, radiusBottom \in Radii, height \in Sizes,
          radialSegments \in SegmentCounts :
          /\ arg' = [radiusTop |-> radiusTop, radiusBottom |-> radiusBottom,
                     height |-> height, radialSegments |-> radialSegments]
          /\ ret' = Returned(createCylinder(radiusTop, radiusBottom, height, radialSegments))
    /\ mem' = None
    /\ pc' = "createCylinder"
    /\ UNCHANGED <<obj, sceneVars>>

CallCreatePlane ==
    /\ pc = "idle"
    /\ \E width \in Sizes, height \in Sizes,
          widthSegments \in SegmentCounts, heightSegments \in SegmentCounts :
          /\ arg' = [width |-> width, height |-> height,
                     widthSegments |-> widthSegments, heightSegments |-> heightSegments]
          /\ ret' = Returned(createPlane(width, height, widthSegments, heightSegments))
    /\ mem' = None
    /\ pc' = "createPlane"
    /\ UNCHANGED <<obj, sceneVars>>

\* the caller drops the result
Return ==
    /\ pc \in {"calculateBonds", "centerMolecule", "parsePDB", "extractBackboneTrace",
              "generateProteinGeometry", "generateProteinGeometrySimple",
              "createBallAndStick", "generateBackboneGeometry",
              "createCube", "createSphere", "createCylinder", "createPlane"}
    /\ pc' = "idle"
    /\ arg' = None
    /\ mem' = None
    /\ ret' = None
    /\ UNCHANGED <<obj, sceneVars>>

NextBonds == CallCalculateBonds \/ Return
SpecBonds == Init /\ [][NextBonds]_vars

NextBackbone == CallExtractBackboneTrace \/ Return
SpecBackbone == Init /\ [][NextBackbone]_vars

NextOBJ ==
    \/ StartParseOBJ \/ ReadPosition \/ ReadNormal \/ ReadTexCoord \/ ReadFace
    \/ ReadSkipped \/ EndOfText \/ ReturnOBJ
SpecOBJ == Init /\ [][NextOBJ]_vars

NextPDB == CallCenterMolecule \/ CallParsePDB \/ Return
SpecPDB == Init /\ [][NextPDB]_vars

NextGeom ==
    \/ StartGenerateProteinGeometry
    \/ StartGenerateManyAtoms
    \/ NextAtomGeometry
    \/ NextBondGeometry
    \/ EndOfGeometries
    \/ Return
SpecGeom == Init /\ [][NextGeom]_vars

NextPrimitives ==
    \/ CallCreateCube
    \/ CallCreateSphere
    \/ CallCreateCylinder
    \/ CallCreatePlane
    \/ Return
SpecPrimitives == Init /\ [][NextPrimitives]_vars

\* parsing and both ways of assembling geometry, for small molecules
NextAssembly ==
    \/ CallParsePDB
    \/ StartGenerateProteinGeometry
    \/ NextAtomGeometry
    \/ NextBondGeometry
    \/ EndOfGeometries
    \/ CallGenerateProteinGeometrySimple
    \/ Return
SpecAssembly == Init /\ [][NextAssembly]_vars

NextSimple == CallGenerateProteinGeometrySimple \/ Return
SpecSimple == Init /\ [][NextSimple]_vars

\* every function that reads a molecule, and the one that shifts it
NextFrame ==
    \/ CallCalculateBonds \/ CallCenterMolecule \/ CallExtractBackboneTrace
    \/ CallGenerateBackboneGeometry \/ CallCreateBallAndStick
    \/ StartGenerateProteinGeometry \/ NextAtomGeometry \/ NextBondGeometry
    \/ EndOfGeometries \/ CallGenerateProteinGeometrySimple \/ Return
SpecFrame == Init /\ [][NextFrame]_vars

-----------------------------------------------------------------------------
(* webgl-scene.js: the event handlers and the completion of a load *)

\* canvas 'mousedown'
MouseDown ==
    /\ \E clientX \in MouseXs, clientY \in MouseYs :
          /\ lastMouseX' = clientX
          /\ lastMouseY' = clientY
    /\ isDragging' = TRUE
    /\ history' = Logged("mousedown", "none")
    /\ UNCHANGED <<libVars, rotationX, rotationY, viewMode, currentCameraDistance, protein,
                   selector, pending>>

\* a mousemove handler without the isDragging test
MouseMoveAlways ==
    /\ \E clientX \in MouseXs, clientY \in MouseYs :
          LET deltaX == clientX - lastMouseX
              deltaY == clientY - lastMouseY
              turned == NumSub(rotationY, Rat(deltaX, 100))
          IN  /\ NumLe(NumAbs(turned), Num(MaxRotationY))
              /\ rotationY' = turned
              /\ rotationX' = ClampRotationX(Angle(rotationX.halfPis,
                                                   NumAdd(rotationX.plus, Rat(deltaY, 100))))
              /\ lastMouseX' = clientX
              /\ lastMouseY' = clientY
              /\ UNCHANGED isDragging
              /\ history' = Logged("mousemove",
                                   render(viewMode, protein.proteinLoaded,
                                          protein.backboneGeometry))
    /\ UNCHANGED <<libVars, viewMode, currentCameraDistance, protein, selector, pending>>

\* canvas 'mousemove'
MouseMove ==
    /\ \E clientX \in MouseXs, clientY \in MouseYs :
          IF ~isDragging
          THEN /\ history' = Logged("mousemove", "none")
               /\ UNCHANGED cameraVars
          ELSE LET deltaX == clientX - lastMouseX
                   deltaY == clientY - lastMouseY
                   turned == NumSub(rotationY, Rat(deltaX, 100))
               IN  /\ NumLe(NumAbs(turned), Num(MaxRotationY))
                   /\ rotationY' = turned
                   /\ rotationX' = ClampRotationX(Angle(rotationX.halfPis,
                                                        NumAdd(rotationX.plus, Rat(deltaY, 100))))
                   /\ lastMouseX' = clientX
                   /\ lastMouseY' = clientY
                   /\ UNCHANGED isDragging
                   /\ history' = Logged("mousemove",
                                        render(viewMode, protein.proteinLoaded,
                                               protein.backboneGeometry))
    /\ UNCHANGED <<libVars, viewMode, currentCameraDistance, protein, selector, pending>>

\* canvas 'mouseup'
MouseUp ==
    /\ isDragging' = FALSE
    /\ history' = Logged("mouseup", "none")
    /\ UNCHANGED <<libVars, rotationX, rotationY, lastMouseX, lastMouseY, viewMode,
                   currentCameraDistance, protein, selector, pending>>

\* canvas 'mouseleave'
MouseLeave ==
    /\ isDragging' = FALSE
    /\ history' = Logged("mouseleave", "none")
    /\ UNCHANGED <<libVars, rotationX, rotationY, lastMouseX, lastMouseY, viewMode,
                   currentCameraDistance, protein, selector, pending>>

\* #reset-camera 'click'
ResetCameraClick ==
    /\ rotationX' = defaultRotationX
    /\ rotationY' = defaultRotationY
    /\ history' = Logged("reset-camera",
                         render(viewMode, protein.proteinLoaded, protein.backboneGeometry))
    /\ UNCHANGED <<libVars, isDragging, lastMouseX, lastMouseY, viewMode,
                   currentCameraDistance, protein, selector, pending>>

\* #view-mode 'change'; loadProteinStructure(selectedProtein) runs up to its
\* await, which puts the fetch in flight
ViewModeChange ==
    /\ \E value \in ViewModes :
          LET loads == value \in {"protein", "backbone"} /\ ~protein.proteinLoaded
          IN  /\ loads => Len(pending) < MaxPending
              /\ viewMode' = value
              /\ currentCameraDistance' = IF value \in {"protein", "backbone"}
                                          THEN proteinCameraDistance
                                          ELSE defaultCameraDistance
              /\ pending' = IF loads THEN Append(pending, selector) ELSE pending
              /\ history' = [event     |-> "view-mode",
                             rendered  |-> render(value, protein.proteinLoaded,
                                                  protein.backboneGeometry),
                             requested |-> IF loads THEN selector ELSE history.requested,
                             failed    |-> history.failed]
    /\ UNCHANGED <<libVars, cameraVars, protein, selector>>

\* #protein-selector 'change'
ProteinSelectorChange ==
    /\ \E value \in ProteinIds \ {selector} :
          LET loads == viewMode \in {"protein", "backbone"}
          IN  /\ loads => Len(pending) < MaxPending
              /\ selector' = value
              /\ pending' = IF loads THEN Append(pending, value) ELSE pending
              /\ history' = [event     |-> "protein-selector",
                             rendered  |-> "none",
                             requested |-> IF loads THEN value ELSE history.requested,
                             failed    |-> history.failed]
    /\ UNCHANGED <<libVars, cameraVars, viewMode, currentCameraDistance, protein>>

\* the sequence without its i-th element
Without(seq, i) == SubSeq(seq, 1, i - 1) \o SubSeq(seq, i + 1, Len(seq))

\* the assignments of loadProteinStructure after the awaited data: the
\* geometry, the backbone trace and its geometry
Assembled(data) ==
    LET backboneTrace == extractBackboneTrace(data)
    IN  [proteinGeometry  |-> generateProteinGeometrySimple(data, [atomScale |-> Num(1)]),
         backboneTrace    |-> backboneTrace,
         backboneGeometry |-> IF backboneTrace.threw THEN Null
                              ELSE generateBackboneGeometry(backboneTrace.value, Rat(3, 10))]

\* what each identifier's fetch resolves to, and what is assembled from it
\* (the same every time, so computed once)
Fetched == [pdbId \in ProteinIds |-> fetchPDBFromRCSB(pdbId)]
AssembledFrom == [pdbId \in ProteinIds |-> Assembled(Fetched[pdbId].value)]

\* loadProteinStructure from the assignment of the awaited data to the end of
\* the try block: the globals it leaves, and whether the catch block ran
Continued(p, data, made, mode) ==
    LET loaded == [proteinData      |-> data,
                   proteinGeometry  |-> made.proteinGeometry.value,
                   backboneGeometry |-> made.backboneGeometry,
                   proteinLoaded    |-> TRUE]
    IN  IF made.proteinGeometry.threw
        THEN [caught |-> TRUE, rendered |-> "none",
              protein |-> [p EXCEPT !.proteinData = data]]
        ELSE IF made.backboneTrace.threw
        THEN [caught |-> TRUE, rendered |-> "none",
              protein |-> [p EXCEPT !.proteinData = data,
                                    !.proteinGeometry = made.proteinGeometry.value]]
        ELSE [caught   |-> render(mode, TRUE, loaded.backboneGeometry) = "ReferenceError",
              rendered |-> render(mode, TRUE, loaded.backboneGeometry),
              protein  |-> loaded]

\* a failed load that also forgets the protein loaded before
LoadFailsClearing ==
    /\ \E i \in 1..Len(pending), how \in {"fetch rejected", "response not ok"} :
          /\ pending' = Without(pending, i)
          /\ history' = [Logged(how, "none") EXCEPT !.failed = TRUE]
    /\ protein' = [protein EXCEPT !.proteinData = Null, !.proteinLoaded = FALSE]
    /\ UNCHANGED <<libVars, cameraVars, viewMode, currentCameraDistance, selector>>

\* a fetch in flight is rejected, or its response is not OK: loadPDB throws,
\* the await in loadProteinStructure throws, the catch block alerts
LoadFails ==
    /\ \E i \in 1..Len(pending), how \in {"fetch rejected", "response not ok"} :
          /\ pending' = Without(pending, i)
          /\ history' = [Logged(how, "none") EXCEPT !.failed = TRUE]
    /\ UNCHANGED <<libVars, cameraVars, viewMode, currentCameraDistance, protein, selector>>

\* a fetch in flight resolves with an OK response and its text: loadPDB
\* returns the parsed data and loadProteinStructure continues to its end
LoadSucceeds ==
    /\ \E i \in 1..Len(pending) :
          LET fetched == Fetched[pending[i]]
              after   == Continued(protein, fetched.value, AssembledFrom[pending[i]], viewMode)
          IN  /\ ~fetched.threw
              /\ pending' = Without(pending, i)
              /\ protein' = after.protein
              /\ history' = [event     |-> IF after.caught THEN "load threw" ELSE "loaded",
                             rendered  |-> after.rendered,
                             requested |-> history.requested,
                             failed    |-> history.failed \/ after.caught]
    /\ UNCHANGED <<libVars, cameraVars, viewMode, currentCameraDistance, selector>>

NextScene ==
    \/ MouseDown \/ MouseMove \/ MouseUp \/ MouseLeave \/ ResetCameraClick
    \/ ViewModeChange \/ ProteinSelectorChange \/ LoadFails \/ LoadSucceeds
SpecScene == Init /\ [][NextScene]_vars

-----------------------------------------------------------------------------
(* Claims *)

\* the threshold a call of calculateBonds works with
ThresholdOf(t) == IF t = Undefined THEN Rat(18, 10) ELSE t

\* the pairs the contract asks for: i < j, no hydrogen, distance < t
\* (stated on the squares: for t > 0, d < t iff d*d < t*t)
ExpectedBondPairs(atoms, t) ==
    {p \in (0..(Len(atoms) - 1)) \X (0..(Len(atoms) - 1)) :
        /\ p[1] < p[2]
        /\ atoms[p[1] + 1].element # <<"H">>
        /\ atoms[p[2] + 1].element # <<"H">>
        /\ LET a == atoms[p[1] + 1]
               b == atoms[p[2] + 1]
               d2 == NumAdd(NumAdd(NumMul(NumSub(a.x, b.x), NumSub(a.x, b.x)),
                                   NumMul(NumSub(a.y, b.y), NumSub(a.y, b.y))),
                            NumMul(NumSub(a.z, b.z), NumSub(a.z, b.z)))
           IN  d2.n * t.d * t.d < t.n * t.n * d2.d}

\* C1: calculateBonds(atoms, t) returns exactly the pairs (i, j), i < j, of
\* non-hydrogen atoms at a distance strictly below t (default 1.8), each
\* once; no pair at distance >= t and no pair with a hydrogen appears.
C1_BondsExact ==
    pc = "calculateBonds" =>
        LET bonds == ret.value
            expected == ExpectedBondPairs(arg.atoms, ThresholdOf(arg.maxBondDistance))
        IN  /\ ~ret.threw
            /\ {<<bonds[k].atom1, bonds[k].atom2>> : k \in 1..Len(bonds)} = expected
            /\ Len(bonds) = Cardinality(expected)

\* three carbons on a line at 0, 1.5 and 1.8: the outer two are exactly at
\* the threshold and get no bond, the other two pairs do
C1_Witness ==
    /\ pc = "calculateBonds"
    /\ arg.maxBondDistance = Undefined
    /\ Len(arg.atoms) = 3
    /\ \A i \in 1..3 : arg.atoms[i].element = <<"C">>
    /\ NumEq(DistanceSquared(arg.atoms[1], arg.atoms[3]), Rat(324, 100))
    /\ Len(ret.value) = 2

\* the lines of a text
LinesOf(text) == Split(text, "\n")

\* the first six characters are exactly 'ATOM  ' or 'HETATM'
IsRecordLine(line) ==
    /\ Len(line) >= 6
    /\ SubSeq(line, 1, 6) \in {<<"A", "T", "O", "M", " ", " ">>,
                               <<"H", "E", "T", "A", "T", "M">>}

RecordLinesOf(text) == SelectSeq(LinesOf(text), IsRecordLine)

\* C5: parsePDB gives one atom record, in file order, for each line whose
\* first six characters are exactly 'ATOM  ' or 'HETATM', and nothing (and
\* no error) for any other line.
C5_OneAtomPerRecordLine ==
    pc = "parsePDB" =>
        LET atoms == ret.value.atoms
            recs  == RecordLinesOf(arg.text)
        IN  /\ ~ret.threw
            /\ Len(atoms) = Len(recs)
            /\ \A i \in 1..Len(atoms) :
                  /\ atoms[i].name = Trim(Substring(recs[i], 12, 16))
                  /\ atoms[i].serial = ParseInt(Substring(recs[i], 6, 11))
                  /\ atoms[i].resSeq = ParseInt(Substring(recs[i], 22, 26))

\* a record line after a line that starts with ATOM but is no record
C5_Witness ==
    /\ pc = "parsePDB"
    /\ Len(LinesOf(arg.text)) = 2
    /\ StartsWith(LinesOf(arg.text)[1], <<"A", "T", "O", "M", "S">>)
    /\ IsRecordLine(LinesOf(arg.text)[2])
    /\ Len(ret.value.atoms) = 1
    /\ ret.value.atoms[1].serial = Num(2)

\* a column with something in it that is not part of a number
NonNumeric(field) ==
    \E i \in 1..Len(field) :
        field[i] \notin WhiteSpace /\ ~IsDigit(field[i]) /\ field[i] \notin {"-", "+", "."}

HasMalformedNumber(line) ==
    \/ NonNumeric(Substring(line, 6, 11))
    \/ NonNumeric(Substring(line, 22, 26))
    \/ NonNumeric(Substring(line, 30, 38))
    \/ NonNumeric(Substring(line, 38, 46))
    \/ NonNumeric(Substring(line, 46, 54))

\* C6 (as claimed): a record line with non-numeric content in a numeric
\* column makes parsePDB fail as a whole instead of returning atoms.
C6_MalformedNumberAborts ==
    (/\ pc = "parsePDB"
     /\ \E i \in 1..Len(RecordLinesOf(arg.text)) :
           HasMalformedNumber(RecordLinesOf(arg.text)[i]))
        => ret.threw

\* sum of one coordinate over the atoms, as a fraction num/den
SumIsZero(atoms, axis) == SumOf(atoms, axis) = Num(0)

SameDifferences(before, after, axis) ==
    \A i, j \in 1..Len(before) :
        NumSub(after[i][axis], after[j][axis]) = NumSub(before[i][axis], before[j][axis])

\* C10: centerMolecule subtracts the mean position from every atom: after
\* it each coordinate sums to zero and all pairwise differences are kept;
\* an empty sequence is left alone.  Inside parsePDB, carbons at (0,0,0)
\* and (0,0,1.5) come out at (0,0,-0.75) and (0,0,0.75) with one bond.
C10_Centered ==
    /\ pc = "centerMolecule" =>
          LET before == arg.atoms
              after  == mem.atoms
          IN  /\ Len(after) = Len(before)
              /\ before = <<>> => after = <<>>
              /\ \A axis \in {"x", "y", "z"} :
                    /\ SumIsZero(after, axis)
                    /\ SameDifferences(before, after, axis)
                    /\ \A i \in 1..Len(before) :
                          NumMul(NumSub(before[i][axis], after[i][axis]), Num(Len(before)))
                              = SumOf(before, axis)
              /\ \A i \in 1..Len(before) :
                    [after[i] EXCEPT !.x = Num(0), !.y = Num(0), !.z = Num(0)]
                        = [before[i] EXCEPT !.x = Num(0), !.y = Num(0), !.z = Num(0)]
    /\ (pc = "parsePDB" /\ arg.text = ScenarioText) =>
          LET atoms == ret.value.atoms
          IN  /\ Len(atoms) = 2
              /\ <<atoms[1].x, atoms[1].y, atoms[1].z>> = <<Num(0), Num(0), Rat(-3, 4)>>
              /\ <<atoms[2].x, atoms[2].y, atoms[2].z>> = <<Num(0), Num(0), Rat(3, 4)>>
              /\ Len(ret.value.bonds) = 1
              /\ ret.value.bonds[1].atom1 = 0 /\ ret.value.bonds[1].atom2 = 1

\* three atoms whose mean is not a whole number
C10_Witness ==
    /\ pc = "centerMolecule"
    /\ Len(arg.atoms) = 3
    /\ SumOf(arg.atoms, "z") = Rat(43, 10)
    /\ SumOf(arg.atoms, "x") = Num(1)
    /\ mem.atoms # arg.atoms

\* chain of the i-th atom, a blank identifier counting as 'A'
ChainOf(atoms, i) == IF atoms[i].chainId = <<>> THEN <<"A">> ELSE atoms[i].chainId

\* i comes before j in the chain sorted ascending by residue number
\* (atoms with the same number stay in file order)
SortedBefore(atoms, i, j) ==
    /\ atoms[i].name = <<"C", "A">>
    /\ atoms[j].name = <<"C", "A">>
    /\ ChainOf(atoms, i) = ChainOf(atoms, j)
    /\ \/ atoms[i].resSeq.n < atoms[j].resSeq.n
       \/ atoms[i].resSeq.n = atoms[j].resSeq.n /\ i < j

\* the pairs the contract links: neighbours in the sorted chain, at most 2 apart
ExpectedSegmentPairs(atoms) ==
    {p \in (1..Len(atoms)) \X (1..Len(atoms)) :
        /\ SortedBefore(atoms, p[1], p[2])
        /\ ~\E k \in 1..Len(atoms) :
               SortedBefore(atoms, p[1], k) /\ SortedBefore(atoms, k, p[2])
        /\ atoms[p[2]].resSeq.n - atoms[p[1]].resSeq.n <= 2}

\* C4: whatever the file order, extractBackboneTrace emits exactly one
\* segment for each pair of CA atoms of one chain (blank = 'A') that are
\* neighbours in the chain sorted by residue number and at most 2 residue
\* numbers apart, and no other segment.
C4_BackboneSegments ==
    pc = "extractBackboneTrace" =>
        LET atoms == arg.proteinData.atoms
            segs  == ret.value.segments
            expected == ExpectedSegmentPairs(atoms)
        IN  /\ ~ret.threw
            /\ Len(segs) = Cardinality(expected)
            /\ {<<segs[k].start.x.n, segs[k].end.x.n>> : k \in 1..Len(segs)} = expected
            /\ \A k \in 1..Len(segs) :
                  /\ segs[k].chainId = ChainOf(atoms, segs[k].start.x.n)
                  /\ segs[k].start = [x |-> atoms[segs[k].start.x.n].x,
                                      y |-> atoms[segs[k].start.x.n].y,
                                      z |-> atoms[segs[k].start.x.n].z]
                  /\ segs[k].end = [x |-> atoms[segs[k].end.x.n].x,
                                    y |-> atoms[segs[k].end.x.n].y,
                                    z |-> atoms[segs[k].end.x.n].z]

\* one chain out of file order: residues 4, 1, 3 give the segments 1-3 and
\* 3-4 and none from 1 to 4
C4_Witness ==
    /\ pc = "extractBackboneTrace"
    /\ Len(arg.proteinData.atoms) = 3
    /\ \A i \in 1..3 : arg.proteinData.atoms[i].name = <<"C", "A">>
    /\ \A i \in 1..3 : arg.proteinData.atoms[i].chainId = <<"A">>
    /\ <<arg.proteinData.atoms[1].resSeq, arg.proteinData.atoms[2].resSeq,
         arg.proteinData.atoms[3].resSeq>> = <<Num(4), Num(1), Num(3)>>
    /\ Len(ret.value.segments) = 2

\* parseOBJ is reading its text or has just returned
InParseOBJ == pc \in {"parseOBJ.lines", "parseOBJ"}

SeenKeys == {obj.seen[i].key : i \in 1..Len(obj.seen)}

\* C2: after any sequence of face records the table maps each distinct
\* composite key (position, texcoord or sentinel, normal or sentinel) to one
\* output vertex index: there are as many output vertices as distinct keys
\* seen, and a face vertex with a key seen before reuses its index.
C2_DedupTable ==
    InParseOBJ =>
        /\ obj.currentIndex = Cardinality(SeenKeys)
        /\ Len(obj.vertices) = 3 * Cardinality(SeenKeys)
        /\ Len(obj.vertexNormals) = 3 * Cardinality(SeenKeys)
        /\ Len(obj.vertexMap) = Cardinality(SeenKeys)
        /\ \A i, j \in 1..Len(obj.seen) :
              (obj.seen[i].key = obj.seen[j].key) <=> (obj.seen[i].index = obj.seen[j].index)
        /\ \A i \in 1..Len(obj.seen) :
              /\ obj.seen[i].index \in 0..(obj.currentIndex - 1)
              /\ ObjHas(obj.vertexMap, obj.seen[i].key)
              /\ ObjGet(obj.vertexMap, obj.seen[i].key) = obj.seen[i].index

\* two faces, the second reusing keys of the first and adding a new one,
\* and two keys that differ in the texture index only
C2_Witness ==
    /\ pc = "parseOBJ.lines"
    /\ obj.faces = 2
    /\ Len(obj.seen) = 6
    /\ obj.currentIndex = 5
    /\ \E i, j \in 1..Len(obj.seen) :
          /\ obj.seen[i].key[1] = obj.seen[j].key[1]
          /\ obj.seen[i].key[3] = obj.seen[j].key[3]
          /\ obj.seen[i].key[2] # obj.seen[j].key[2]

\* the indices the last face record appended
LastEmitted == SubSeq(obj.indices, obj.last.indicesBefore + 1, Len(obj.indices))

\* C3: a face record with n >= 3 vertices appends exactly n-2 triangles,
\* (f[0], f[i], f[i+1]) for i = 1..n-2, f being the face's own output
\* vertex indices; no other index is emitted.
C3_FanTriangulation ==
    (InParseOBJ /\ obj.last # None) =>
        LET f == obj.last.faceVertices
            n == Len(f)
        IN  n >= 3 =>
               /\ Len(LastEmitted) = 3 * (n - 2)
               /\ \A i \in 1..(n - 2) :
                     SubSeq(LastEmitted, 3 * i - 2, 3 * i) = <<f[1], f[i + 1], f[i + 2]>>
               /\ \A k \in 1..Len(LastEmitted) : \E i \in 1..n : LastEmitted[k] = f[i]

\* a five-vertex face after a triangle: three more triangles
C3_Witness ==
    /\ pc = "parseOBJ.lines"
    /\ obj.faces = 2
    /\ Len(obj.last.faceVertices) = 5
    /\ obj.last.indicesBefore = 3
    /\ Len(obj.indices) = 12

\* a face vertex whose position index is zero, negative or past the
\* positions of the text, or whose normal index is past its normals
BadReference(e) ==
    \/ e.key[1].nan
    \/ e.key[1].n < 0
    \/ e.key[1].n >= Len(obj.positions) \div 3
    \/ e.key[3].n >= Len(obj.normals) \div 3 /\ e.key[3].n >= 0

\* C7 (as claimed): a face that references a position or normal index that
\* is zero, negative or too large makes parseOBJ fail instead of returning
\* a mesh.
C7_BadReferenceAborts ==
    (pc = "parseOBJ" /\ \E i \in 1..Len(obj.seen) : BadReference(obj.seen[i]))
        => ret.threw

Dot(a, b) == NumAdd(NumAdd(NumMul(a[1], b[1]), NumMul(a[2], b[2])), NumMul(a[3], b[3]))

VecAdd(a, b) == <<NumAdd(a[1], b[1]), NumAdd(a[2], b[2]), NumAdd(a[3], b[3])>>

Zero3 == <<Num(0), Num(0), Num(0)>>

\* the sum of (v1-v0) x (v2-v0) over the first k triangles that have
\* vertex v as a corner
RECURSIVE IncidentSum(_, _, _, _)
IncidentSum(vertices, indices, v, k) ==
    IF k = 0 THEN Zero3
    ELSE LET rest == IncidentSum(vertices, indices, v, k - 1)
             i    == 3 * (k - 1)
         IN  IF v \in {indices[i + 1], indices[i + 2], indices[i + 3]}
             THEN VecAdd(rest, FaceNormal(vertices, indices, i))
             ELSE rest

\* n is s scaled to length one (n is zero when s is)
IsNormalized(n, s) ==
    IF s = Zero3 THEN n = Zero3
    ELSE /\ Cross(n, s) = Zero3
         /\ NumLt(Num(0), Dot(n, s))
         /\ Dot(n, n) = Num(1)

\* C8 (as claimed): without any 'vn' record, the normal of each output
\* vertex is the normalised sum of the face normals (v1-v0) x (v2-v0) of
\* the triangles at that vertex, and zero at a vertex without a triangle.
C8_FallbackNormals ==
    (/\ pc = "parseOBJ"
     /\ Len(obj.normals) = 0
     /\ obj.faces > 0
     /\ \A k \in 1..Len(ret.value.vertices) : ~ret.value.vertices[k].nan)
        => \A v \in 0..(Len(ret.value.vertices) \div 3 - 1) :
              IsNormalized(Vec3At(ret.value.normals, 3 * v),
                           IncidentSum(ret.value.vertices, ret.value.indices, v,
                                       Len(ret.value.indices) \div 3))


\* what the generators return for one atom and for one bond: a 10x10 sphere
\* and an 8-segment cylinder (indices and vertex count do not depend on the
\* radius or the height)
SphereIndices == <<>> \o createSphere(Num(1), 10, 10).indices
CylinderIndices == <<>> \o createCylinder(Num(1), Num(1), Num(1), 8).indices
SphereVertexCount == Len(createSphere(Num(1), 10, 10).vertices) \div 3
CylinderVertexCount == Len(createCylinder(Num(1), Num(1), Num(1), 8).vertices) \div 3

\* C9: generateProteinGeometry returns vertices, normals and colors of the
\* same length, 3 entries per vertex, and the indices of the k-th submesh are
\* the generator's indices plus the vertex count of all earlier submeshes, so
\* every index is below the total vertex count and inside its own submesh.
\* Stated for the submesh k = mem.done that the last pass added.
C9_MergedBuffers ==
    (pc \in {"generateProteinGeometry.loops", "generateProteinGeometry"} /\ mem.done > 0) =>
        LET nA == Len(arg.ballAndStick.atomGeometries)
            nB == Len(arg.ballAndStick.bondGeometries)
            k == mem.done
            generated == IF k <= nA THEN SphereIndices ELSE CylinderIndices
            count == IF k <= nA THEN SphereVertexCount ELSE CylinderVertexCount
            before == IF k <= nA THEN (k - 1) * SphereVertexCount
                      ELSE nA * SphereVertexCount + (k - 1 - nA) * CylinderVertexCount
            total == nA * SphereVertexCount + nB * CylinderVertexCount
        IN  /\ mem.length.vertices = 3 * (before + count)
            /\ mem.length.normals = mem.length.vertices
            /\ mem.length.colors = mem.length.vertices
            /\ Len(mem.part.vertices) = 3 * count
            /\ Len(mem.part.normals) = 3 * count
            /\ Len(mem.part.colors) = 3 * count
            /\ Len(mem.part.indices) = Len(generated)
            /\ \A i \in 1..Len(generated) :
                  /\ mem.part.indices[i] = generated[i] + before
                  /\ mem.part.indices[i] < total
                  /\ mem.part.indices[i] >= before
                  /\ mem.part.indices[i] < before + count

\* the chain identifiers (blank = 'A') of the CA atoms among the first k
\* atoms, each once, in the order of first occurrence
RECURSIVE FirstOccurrences(_, _)
FirstOccurrences(atoms, k) ==
    IF k = 0 THEN <<>>
    ELSE LET before == FirstOccurrences(atoms, k - 1)
         IN  IF atoms[k].name = <<"C", "A">>
                /\ ~\E i \in 1..Len(before) : before[i] = ChainOf(atoms, k)
             THEN Append(before, ChainOf(atoms, k))
             ELSE before

\* C11 (as claimed): 'chains' holds each chain identifier with a CA atom
\* exactly once, in the order in which the identifiers first occur in the
\* atom sequence, for letters and digits alike.
C11_ChainsInFirstOccurrenceOrder ==
    pc = "extractBackboneTrace" =>
        ret.value.chains = FirstOccurrences(arg.proteinData.atoms, Len(arg.proteinData.atoms))

\* the characters of columns first..last (counted from 1) that the line has
ColumnsOf(line, first, last) ==
    [k \in 1..Max(0, Min(Len(line), last) - first + 1) |-> line[first + k - 1]]

NonBlank(s) == SelectSeq(s, LAMBDA c : c # " ")

\* the element the contract gives a record line
ExpectedElement(line) ==
    LET elem == NonBlank(ColumnsOf(line, 77, 78))
        name == NonBlank(ColumnsOf(line, 13, 16))
    IN  IF elem # <<>> THEN elem
        ELSE IF name # <<>> /\ name[1] \in {"C", "N", "O", "S", "H", "P"} THEN <<name[1]>>
        ELSE <<"C">>

\* C12: every atom parsePDB returns has a non-empty element: the trimmed
\* element columns 77-78 when not blank, otherwise the first non-space
\* character of the atom-name columns if it is one of C, N, O, S, H, P, and
\* 'C' for any other character or an empty name.
C12_ElementNeverEmpty ==
    pc = "parsePDB" =>
        \A i \in 1..Len(ret.value.atoms) :
            /\ ret.value.atoms[i].element # <<>>
            /\ ret.value.atoms[i].element = ExpectedElement(RecordLinesOf(arg.text)[i])

\* blank element columns twice: the name 'FE' gives 'C', the name ' N' gives 'N'
C12_Witness ==
    /\ pc = "parsePDB"
    /\ Len(ret.value.atoms) = 2
    /\ \A i \in 1..2 : NonBlank(ColumnsOf(RecordLinesOf(arg.text)[i], 77, 78)) = <<>>
    /\ ret.value.atoms[1].name = <<"F", "E">>
    /\ ret.value.atoms[1].element = <<"C">>
    /\ ret.value.atoms[2].name = <<"N">>
    /\ ret.value.atoms[2].element = <<"N">>

\* the line ends before the column that follows the first `before` columns
Absent(line, before) == Len(line) <= before

\* C13 (as claimed): a record line shorter than the documented columns
\* still gives an atom, without failure, in which a text field whose columns
\* are absent is empty (the element its default) and a numeric field whose
\* columns are absent is zero (a coordinate absent from every record stays
\* zero after centring).
C13_ShortLineDefaults ==
    pc = "parsePDB" =>
        LET atoms == ret.value.atoms
            recs  == RecordLinesOf(arg.text)
        IN  /\ ~ret.threw
            /\ Len(atoms) = Len(recs)
            /\ \A i \in 1..Len(atoms) :
                  /\ Absent(recs[i], 6) => atoms[i].serial = Num(0)
                  /\ Absent(recs[i], 12) => atoms[i].name = <<>>
                  /\ Absent(recs[i], 17) => atoms[i].resName = <<>>
                  /\ Absent(recs[i], 21) => atoms[i].chainId = <<>>
                  /\ Absent(recs[i], 22) => atoms[i].resSeq = Num(0)
                  /\ Absent(recs[i], 76) => atoms[i].element = ExpectedElement(recs[i])
            /\ (\A i \in 1..Len(recs) : Absent(recs[i], 30)) =>
                  \A i \in 1..Len(atoms) : atoms[i].x = Num(0)
            /\ (\A i \in 1..Len(recs) : Absent(recs[i], 38)) =>
                  \A i \in 1..Len(atoms) : atoms[i].y = Num(0)
            /\ (\A i \in 1..Len(recs) : Absent(recs[i], 46)) =>
                  \A i \in 1..Len(atoms) : atoms[i].z = Num(0)

\* the colour and radius tables of the contract, keyed by upper-case symbol
TableColour(element) ==
    LET e == ToUpperCase(element)
    IN  CASE e = <<"H">> -> <<Num(1), Num(1), Num(1)>>
          [] e = <<"C">> -> <<Rat(2, 10), Rat(2, 10), Rat(2, 10)>>
          [] e = <<"N">> -> <<Num(0), Num(0), Num(1)>>
          [] e = <<"O">> -> <<Num(1), Num(0), Num(0)>>
          [] e = <<"S">> -> <<Num(1), Num(1), Num(0)>>
          [] e = <<"P">> -> <<Num(1), Rat(5, 10), Num(0)>>
          [] e \in {<<"F">>, <<"C", "L">>, <<"C", "A">>} -> <<Num(0), Num(1), Num(0)>>
          [] e = <<"B", "R">> -> <<Rat(5, 10), Num(0), Num(0)>>
          [] e = <<"I">> -> <<Rat(5, 10), Num(0), Rat(5, 10)>>
          [] e = <<"F", "E">> -> <<Num(1), Rat(5, 10), Num(0)>>
          [] OTHER -> <<Rat(8, 10), Num(0), Rat(8, 10)>>

TableRadius(element) ==
    LET e == ToUpperCase(element)
    IN  CASE e = <<"H">> -> Rat(30, 100)
          [] e = <<"C">> -> Rat(40, 100)
          [] e \in {<<"N">>, <<"O">>} -> Rat(35, 100)
          [] e \in {<<"S">>, <<"P">>} -> Rat(45, 100)
          [] OTHER -> Rat(40, 100)

\* C14 (as claimed): for N atoms and B bonds generateProteinGeometrySimple
\* returns positions (3N), colors (3N), radii (N) and elements (N), parallel
\* by atom; the colour is the table colour of the element (any case) or
\* magenta, the radius the table radius (0.4 if unknown) times the supplied
\* atom-scale factor, whatever its value; bond positions are the two end
\* points of each bond in bond order (6B) and bond colors are 0.5 (6B).
C14_SimpleGeometry ==
    pc = "generateProteinGeometrySimple" =>
        LET atoms == arg.proteinData.atoms
            bonds == arg.proteinData.bonds
            scale == arg.options.atomScale
            g == ret.value
        IN  /\ ~ret.threw
            /\ Len(g.atoms.positions) = 3 * Len(atoms)
            /\ Len(g.atoms.colors) = 3 * Len(atoms)
            /\ Len(g.atoms.radii) = Len(atoms)
            /\ Len(g.atoms.elements) = Len(atoms)
            /\ \A i \in 1..Len(atoms) :
                  /\ SubSeq(g.atoms.positions, 3 * i - 2, 3 * i)
                        = <<atoms[i].x, atoms[i].y, atoms[i].z>>
                  /\ SubSeq(g.atoms.colors, 3 * i - 2, 3 * i) = TableColour(atoms[i].element)
                  /\ g.atoms.elements[i] = atoms[i].element
                  /\ scale # Undefined =>
                        g.atoms.radii[i] = NumMul(TableRadius(atoms[i].element), scale)
            /\ Len(g.bonds.positions) = 6 * Len(bonds)
            /\ Len(g.bonds.colors) = 6 * Len(bonds)
            /\ \A b \in 1..Len(bonds) :
                  SubSeq(g.bonds.positions, 6 * b - 5, 6 * b)
                     = <<atoms[bonds[b].atom1 + 1].x, atoms[bonds[b].atom1 + 1].y,
                         atoms[bonds[b].atom1 + 1].z, atoms[bonds[b].atom2 + 1].x,
                         atoms[bonds[b].atom2 + 1].y, atoms[bonds[b].atom2 + 1].z>>
            /\ \A k \in 1..Len(g.bonds.colors) : g.bonds.colors[k] = Rat(1, 2)

\* C15: a text without any ATOM/HETATM record parses to an empty atom list
\* and an empty bond list without failure, and for zero atoms both
\* generateProteinGeometry and generateProteinGeometrySimple return
\* zero-length arrays without failure.
C15_EmptyInput ==
    /\ (pc = "parsePDB" /\ RecordLinesOf(arg.text) = <<>>) =>
          /\ ~ret.threw
          /\ ret.value.atoms = <<>>
          /\ ret.value.bonds = <<>>
    /\ (/\ pc = "generateProteinGeometry"
        /\ arg.ballAndStick.atomGeometries = <<>>
        /\ arg.ballAndStick.bondGeometries = <<>>) =>
          /\ ~ret.threw
          /\ ret.value.length = [vertices |-> 0, normals |-> 0, colors |-> 0, indices |-> 0]
          /\ ret.value.part = [vertices |-> <<>>, normals |-> <<>>, colors |-> <<>>,
                               indices |-> <<>>]
    /\ (pc = "generateProteinGeometrySimple" /\ arg.proteinData.atoms = <<>>) =>
          /\ ~ret.threw
          /\ ret.value.atoms = [positions |-> <<>>, colors |-> <<>>, radii |-> <<>>,
                                elements |-> <<>>]
          /\ ret.value.bonds = [positions |-> <<>>, colors |-> <<>>]

\* a text of two lines, neither of them a record, has been parsed
C15_Witness ==
    /\ pc = "parsePDB"
    /\ Len(LinesOf(arg.text)) = 2
    /\ \A i \in 1..2 : Len(LinesOf(arg.text)[i]) > 0
    /\ RecordLinesOf(arg.text) = <<>>
    /\ ~ret.threw
    /\ ret.value.atoms = <<>>

\* the v-th entry (from 0) of a flat buffer of 3-tuples
TripleAt(buffer, v) == <<buffer[3 * v + 1], buffer[3 * v + 2], buffer[3 * v + 3]>>

AxisUnits ==
    {<<Num(1), Num(0), Num(0)>>, <<Num(-1), Num(0), Num(0)>>,
     <<Num(0), Num(1), Num(0)>>, <<Num(0), Num(-1), Num(0)>>,
     <<Num(0), Num(0), Num(1)>>, <<Num(0), Num(0), Num(-1)>>}

\* C16: createCube(s), s > 0, returns 24 vertices, 24 normals and 36
\* indices: 6 faces of 4 vertices and 2 triangles; the vertices of a face
\* lie on it and share one axis-aligned unit normal, no vertex index is used
\* by two faces, every index is < 24, and each triangle is wound so that
\* (v1-v0) x (v2-v0) points along the stored normal of its face.
C16_CubeFaces ==
    pc = "createCube" =>
        LET cube == ret.value
            s == arg.size
            normalOf(f) == TripleAt(cube.normals, 4 * f)
        IN  /\ Len(cube.vertices) = 3 * 24
            /\ Len(cube.normals) = 3 * 24
            /\ Len(cube.indices) = 36
            /\ \A k \in 1..36 : cube.indices[k] \in 0..23
            /\ {normalOf(f) : f \in 0..5} = AxisUnits
            /\ \A f \in 0..5 :
                  /\ \A v \in (4 * f)..(4 * f + 3) :
                        /\ TripleAt(cube.normals, v) = normalOf(f)
                        /\ Dot(TripleAt(cube.vertices, v), normalOf(f)) = s
                        /\ \A c \in 1..3 :
                              TripleAt(cube.vertices, v)[c] \in {s, NumSub(Num(0), s)}
                  /\ \A v, w \in (4 * f)..(4 * f + 3) :
                        v # w => TripleAt(cube.vertices, v) # TripleAt(cube.vertices, w)
                  /\ \A k \in (6 * f + 1)..(6 * f + 6) :
                        cube.indices[k] \in (4 * f)..(4 * f + 3)
                  /\ \A t \in {6 * f, 6 * f + 3} :
                        LET v0 == TripleAt(cube.vertices, cube.indices[t + 1])
                            v1 == TripleAt(cube.vertices, cube.indices[t + 2])
                            v2 == TripleAt(cube.vertices, cube.indices[t + 3])
                            n  == Cross(VecSub(v1, v0), VecSub(v2, v0))
                        IN  /\ Cross(n, normalOf(f)) = Zero3
                            /\ NumLt(Num(0), Dot(n, normalOf(f)))

\* the cube of half-extent 1/2: its first vertex is the front face's
\* (-1/2, -1/2, 1/2) and its last triangle is (20, 22, 23)
C16_Witness ==
    /\ pc = "createCube"
    /\ arg.size = Rat(1, 2)
    /\ TripleAt(ret.value.vertices, 0) = <<Rat(-1, 2), Rat(-1, 2), Rat(1, 2)>>
    /\ SubSeq(ret.value.indices, 34, 36) = <<20, 22, 23>>

\* a mesh of `count` vertices whose vertices and normals have 3 entries per
\* vertex and whose `size` indices are all below the vertex count
SizedMesh(mesh, count, size) ==
    /\ Len(mesh.vertices) = 3 * count
    /\ Len(mesh.normals) = Len(mesh.vertices)
    /\ Len(mesh.indices) = size
    /\ \A k \in 1..Len(mesh.indices) : mesh.indices[k] \in 0..(count - 1)

\* C17: for segment counts >= 1, createSphere returns (lat+1)*(lon+1)
\* vertices and 6*lat*lon indices, createCylinder 2*(segments+1) vertices and
\* 6*segments indices, createPlane (w+1)*(h+1) vertices with normal (0,0,1)
\* and 6*w*h indices; vertices and normals have equal length and every
\* index is below the vertex count.
C17_GeneratorSizes ==
    /\ (pc = "createSphere" /\ arg.latitudeBands >= 1 /\ arg.longitudeBands >= 1) =>
          SizedMesh(ret.value, (arg.latitudeBands + 1) * (arg.longitudeBands + 1),
                    6 * arg.latitudeBands * arg.longitudeBands)
    /\ (pc = "createCylinder" /\ arg.radialSegments >= 1) =>
          SizedMesh(ret.value, 2 * (arg.radialSegments + 1), 6 * arg.radialSegments)
    /\ (pc = "createPlane" /\ arg.widthSegments >= 1 /\ arg.heightSegments >= 1) =>
          /\ SizedMesh(ret.value, (arg.widthSegments + 1) * (arg.heightSegments + 1),
                       6 * arg.widthSegments * arg.heightSegments)
          /\ \A v \in 0..((arg.widthSegments + 1) * (arg.heightSegments + 1) - 1) :
                TripleAt(ret.value.normals, v) = <<Num(0), Num(0), Num(1)>>

\* a cylinder of 3 segments: 8 vertices, 18 indices, the last of them 3
\* (the last quad closes on vertex a + 1 = 3 of the first ring)
C17_Witness ==
    /\ pc = "createCylinder"
    /\ arg.radialSegments = 3
    /\ Len(ret.value.vertices) = 24
    /\ Len(ret.value.indices) = 18
    /\ ret.value.indices[17] = 7
    /\ ret.value.indices[18] = 3

\* a buffer entry that came out of a division by zero
DividedByZero(x) == IsRational(x) /\ (x.nan \/ x.d = 0)

NoDivisionByZero(mesh) ==
    /\ \A k \in 1..Len(mesh.vertices) : ~DividedByZero(mesh.vertices[k])
    /\ \A k \in 1..Len(mesh.normals) : ~DividedByZero(mesh.normals[k])

AtLeastOne(count) == IF count = 0 THEN 1 ELSE count

\* C18 (as claimed): called with a segment count of zero, createSphere,
\* createCylinder and createPlane either reject the call or behave as if the
\* count were 1, and never return a buffer that holds the result of a
\* division by zero.
C18_DegenerateSegments ==
    /\ (pc = "createSphere" /\ 0 \in {arg.latitudeBands, arg.longitudeBands}) =>
          \/ ret.threw
          \/ /\ NoDivisionByZero(ret.value)
             /\ ret.value = createSphere(arg.radius, AtLeastOne(arg.latitudeBands),
                                         AtLeastOne(arg.longitudeBands))
    /\ (pc = "createCylinder" /\ arg.radialSegments = 0) =>
          \/ ret.threw
          \/ /\ NoDivisionByZero(ret.value)
             /\ ret.value = createCylinder(arg.radiusTop, arg.radiusBottom, arg.height, 1)
    /\ (pc = "createPlane" /\ 0 \in {arg.widthSegments, arg.heightSegments}) =>
          \/ ret.threw
          \/ /\ NoDivisionByZero(ret.value)
             /\ ret.value = createPlane(arg.width, arg.height, AtLeastOne(arg.widthSegments),
                                        AtLeastOne(arg.heightSegments))

\* C19 (as claimed): every triangle createSphere emits, those of the first
\* and the last latitude row included, has three indices that refer to
\* three pairwise distinct vertex positions.
C19_SphereTrianglesProper ==
    (pc = "createSphere" /\ arg.latitudeBands >= 1 /\ arg.longitudeBands >= 1) =>
        \A t \in 0..(Len(ret.value.indices) \div 3 - 1) :
            LET p0 == TripleAt(ret.value.vertices, ret.value.indices[3 * t + 1])
                p1 == TripleAt(ret.value.vertices, ret.value.indices[3 * t + 2])
                p2 == TripleAt(ret.value.vertices, ret.value.indices[3 * t + 3])
            IN  p0 # p1 /\ p1 # p2 /\ p0 # p2

\* C20 (as claimed): face vertices that use the same (position index,
\* normal index) pair get one output vertex, whatever texture-coordinate
\* index accompanies the pair: all of them are given the same output index.
C20_OneVertexPerPositionNormal ==
    InParseOBJ =>
        \A i, j \in 1..Len(obj.seen) :
            (/\ obj.seen[i].key[1] = obj.seen[j].key[1]
             /\ obj.seen[i].key[3] = obj.seen[j].key[3])
                => obj.seen[i].index = obj.seen[j].index

\* the functions that take a molecule (or a trace of one) and only read it
ReadingCalls ==
    {"calculateBonds", "extractBackboneTrace", "generateBackboneGeometry",
     "createBallAndStick", "generateProteinGeometrySimple"}

C28_IndicesNotTruncated ==
    (pc \in {"generateProteinGeometry.loops", "generateProteinGeometry"} /\ mem.done > 0) =>
        LET nA == Len(arg.ballAndStick.atomGeometries)
            k == mem.done
            generated == IF k <= nA THEN SphereIndices ELSE CylinderIndices
            before == IF k <= nA THEN (k - 1) * SphereVertexCount
                      ELSE nA * SphereVertexCount + (k - 1 - nA) * CylinderVertexCount
            computed == [i \in 1..Len(generated) |-> generated[i] + before]
        IN  /\ mem.part.indices = computed
            /\ \A i \in 1..Len(computed) : computed[i] <= 65535

\* every triangle of the mesh is wound along its stored normals: the
\* geometric normal (v1-v0) x (v2-v0) has a non-negative dot product with the
\* stored normal of each of its three vertices
WoundAlongNormals(mesh) ==
    \A t \in 0..(Len(mesh.indices) \div 3 - 1) :
        LET v0 == TripleAt(mesh.vertices, mesh.indices[3 * t + 1])
            v1 == TripleAt(mesh.vertices, mesh.indices[3 * t + 2])
            v2 == TripleAt(mesh.vertices, mesh.indices[3 * t + 3])
            geometric == Cross(VecSub(v1, v0), VecSub(v2, v0))
        IN  \A k \in 1..3 :
                NumLe(Num(0), Dot(geometric, TripleAt(mesh.normals, mesh.indices[3 * t + k])))

\* segment counts at which every sine and cosine is 0, 1 or -1
AxisAligned(count) == count \in {1, 2, 4}

\* C29 (as claimed): createPlane, createSphere and createCylinder wind their
\* triangles as createCube does, along the stored normals: for every
\* triangle the geometric normal (v1-v0) x (v2-v0) has a non-negative dot
\* product with the stored normal of each of its vertices (sphere and
\* cylinder at segment counts whose vertices are axis-aligned).
C29_SameOrientation ==
    /\ (pc = "createPlane" /\ arg.widthSegments >= 1 /\ arg.heightSegments >= 1) =>
          WoundAlongNormals(ret.value)
    /\ (pc = "createSphere" /\ arg.latitudeBands \in {1, 2}
                            /\ AxisAligned(arg.longitudeBands)) =>
          WoundAlongNormals(ret.value)
    /\ (pc = "createCylinder" /\ AxisAligned(arg.radialSegments)) =>
          WoundAlongNormals(ret.value)
    /\ pc = "createCube" => WoundAlongNormals(ret.value)

\* the events with which a load ends in the catch block
FailureEvents == {"fetch rejected", "response not ok", "load threw"}

\* the four globals as the script leaves them before any load
NothingLoaded ==
    [proteinData |-> Null, proteinGeometry |-> Null, backboneGeometry |-> Undeclared,
     proteinLoaded |-> FALSE]

\* the four globals of one completed load of pdbId
AllLoaded(pdbId) ==
    [proteinData      |-> Fetched[pdbId].value,
     proteinGeometry  |-> AssembledFrom[pdbId].proteinGeometry.value,
     backboneGeometry |-> AssembledFrom[pdbId].backboneGeometry,
     proteinLoaded    |-> TRUE]

CompletedRenders == {"renderProtein", "renderBackbone", "renderCubes"}

\* C23 (as claimed): in every state (dragging or not, any view mode, loads
\* in flight or not) a click on the reset-camera button sets rotationX and
\* rotationY to their defaults -0.3 and 0, leaves the view mode, the camera
\* distance, the loaded protein, the selector and the loads in flight
\* unchanged, and is followed by a render of the scene.
C23_ResetCamera ==
    [][history'.event = "reset-camera" =>
          /\ rotationX' = Angle(0, Rat(-3, 10))
          /\ rotationY' = Num(0)
          /\ UNCHANGED <<viewMode, currentCameraDistance, protein, selector, pending,
                         isDragging, lastMouseX, lastMouseY>>
          /\ history'.rendered \in CompletedRenders]_vars

\* C24: the camera rotates only during a drag.  isDragging becomes true with
\* a mousedown, false with a mouseup or a mouseleave, and no other event
\* changes it; a mousemove received while isDragging is false changes
\* neither rotationX, rotationY, lastMouseX nor lastMouseY and calls no
\* render; and the rotation changes only with a mousemove during a drag (or
\* with the reset button).
C24_RotatesOnlyWhileDragging ==
    [][/\ history'.event = "mousedown" => isDragging'
       /\ history'.event \in {"mouseup", "mouseleave"} => ~isDragging'
       /\ history'.event \notin {"mousedown", "mouseup", "mouseleave"} =>
             isDragging' = isDragging
       /\ (history'.event = "mousemove" /\ ~isDragging) =>
             /\ UNCHANGED <<rotationX, rotationY, lastMouseX, lastMouseY>>
             /\ history'.rendered = "none"
       /\ (rotationX' # rotationX \/ rotationY' # rotationY) =>
             \/ history'.event = "mousemove" /\ isDragging
             \/ history'.event = "reset-camera"]_vars

\* a mousemove has arrived after a drag that turned the camera had ended:
\* the drag's last cursor position and the rotation are still in place and
\* nothing was rendered
C24_Witness ==
    /\ history.event = "mousemove"
    /\ ~isDragging
    /\ history.rendered = "none"
    /\ lastMouseX = 200
    /\ lastMouseY = 200
    /\ rotationY = Num(-2)
    /\ rotationX = Angle(1, Num(0))

C25_LastRequestWins ==
    (pending = <<>> /\ ~history.failed) => protein = AllLoaded(history.requested)

\* C26 (as claimed): render() completes without error in every reachable
\* state: every variable it reads is defined, and in the backbone view
\* before any load has completed it falls back to drawing the cubes.
C26_RenderCompletes ==
    /\ render(viewMode, protein.proteinLoaded, protein.backboneGeometry) \in CompletedRenders
    /\ history.rendered # "ReferenceError"
    /\ (viewMode = "backbone" /\ ~protein.proteinLoaded) =>
          render(viewMode, protein.proteinLoaded, protein.backboneGeometry) = "renderCubes"

\* C27 (as claimed): whenever the view mode is 'protein' or 'backbone', a
\* protein has been loaded and no load is in flight, the loaded protein is
\* the one selected in the protein selector.
C27_LoadedIsSelected ==
    (/\ viewMode \in {"protein", "backbone"}
     /\ protein.proteinLoaded
     /\ pending = <<>>
     /\ ~history.failed) => protein = AllLoaded(selector)

=============================================================================
